---- MODULE Spec2Model ----
(***************************************************************************)
(* The client-side navigation engine of the crowd-status SPA:              *)
(*   - Router and Navigator of src/srv-www-ass-old3/spalib-bu-3.mjs,       *)
(*   - PageNavigator of src/srv-www-ass-old3/spalib-bu-4.mjs.              *)
(*                                                                         *)
(* A JavaScript string is modelled as a sequence of tokens: the token "/"  *)
(* is the separator character, every other token is a maximal run of       *)
(* non-separator characters (so two such tokens are never adjacent).       *)
(***************************************************************************)
EXTENDS Integers, Sequences, FiniteSets, TLC

\* ------------------------------------------------------------------ bounds
\* entries of #pathUnmatchIgniters, and of #domClearIgniters
MaxIgniters == 1
\* cleanupFull calls a controller has received when a request may still start
MaxCleanups == 2
\* navigateTo calls of a PageNavigator that have not settled
MaxInFlight == 2
\* scope watchers a single preparePartialTransfer has handed over
MaxListed == 3
\* registerHandlerFactory calls made on a Router
MaxRoutes == 3
\* navigate calls of a Navigator that overlap
MaxOverlap == 2
\* rooms the API knows
MaxRooms == 3
\* setInterval calls of a DashboardHandler
MaxTimers == 3
\* #fetchAndApplyData calls a timer made that await the API
MaxFetches == 2
\* renderingFull calls of a DashboardHandler that overlap
MaxRenderings == 2

\* ----------------------------------------------------------------- strings
Slash == "/"

\* StripLeading that removes one separator only, as replace(/^\//, '')
\* would (C26_NormalizedAlike tells the two apart)
StripLeadingOnce(s) ==
    IF s # <<>> /\ Head(s) = Slash THEN Tail(s) ELSE s

RECURSIVE StripLeading(_)
StripLeading(s) ==
    IF s # <<>> /\ Head(s) = Slash THEN StripLeading(Tail(s)) ELSE s

RECURSIVE StripTrailing(_)
StripTrailing(s) ==
    IF s # <<>> /\ s[Len(s)] = Slash
    THEN StripTrailing(SubSeq(s, 1, Len(s) - 1))
    ELSE s

RECURSIVE CollapseSlashes(_)
CollapseSlashes(s) ==
    IF Len(s) < 2 THEN s
    ELSE IF s[1] = Slash /\ s[2] = Slash
         THEN CollapseSlashes(Tail(s))
         ELSE <<s[1]>> \o CollapseSlashes(Tail(s))

\* Router.normalizePath: '' for a falsy path, else strip leading and
\* trailing separators and collapse runs of separators.
normalizePath(path) ==
    IF path = <<>> THEN <<>>
    ELSE CollapseSlashes(StripTrailing(StripLeading(path)))

\* str.split('/').filter(Boolean)
SplitSegments(s) == SelectSeq(s, LAMBDA t : t # Slash)

\* segments.join('/')
RECURSIVE JoinSegments(_)
JoinSegments(segs) ==
    IF segs = <<>> THEN <<>>
    ELSE IF Len(segs) = 1 THEN segs
    ELSE <<Head(segs), Slash>> \o JoinSegments(Tail(segs))

\* segment.startsWith(':') over the segment alphabet of the model
ParamSegments == {":roomid", ":id"}
StartsWithColon(seg) == seg \in ParamSegments

\* segment.slice(1) of a ':name' segment
SliceOne(seg) ==
    CASE seg = ":roomid" -> "roomid"
      [] seg = ":id" -> "id"
      [] OTHER -> seg

\* `:${paramName}`
ColonName(name) ==
    CASE name = "roomid" -> ":roomid"
      [] name = "id" -> ":id"
      [] OTHER -> name

\* ------------------------------------------------------------------ Router
\* The route tree is a function from node keys to nodes.  The key of a node
\* is the sequence of edge labels from the root: a literal segment for
\* staticChildren[segment], ParamEdge for paramChild, WildEdge for
\* wildcardChild.  handlerFactory is "" where the source has null.
ParamEdge == "<paramChild>"
WildEdge == "<wildcardChild>"
NoFactory == ""

createRouteNode == [handlerFactory |-> NoFactory, paramName |-> ""]

EmptyRoutes == (<<>> :> createRouteNode)

WithNode(t, key) == IF key \in DOMAIN t THEN t ELSE t @@ (key :> createRouteNode)

RECURSIVE RegisterWalk(_, _, _, _)
RegisterWalk(t, current, segments, factory) ==
    IF segments = <<>>
    THEN [t EXCEPT ![current].handlerFactory = factory]
    ELSE LET segment == Head(segments) IN
         IF segment = "*"
         THEN LET child == Append(current, WildEdge) IN
              [WithNode(t, child) EXCEPT ![child].handlerFactory = factory]
         ELSE IF StartsWithColon(segment)
         THEN LET child == Append(current, ParamEdge) IN
              RegisterWalk([WithNode(t, child) EXCEPT ![child].paramName = SliceOne(segment)],
                           child, Tail(segments), factory)
         ELSE LET child == Append(current, segment) IN
              RegisterWalk(WithNode(t, child), child, Tail(segments), factory)

registerHandlerFactory(t, path, factory) ==
    RegisterWalk(t, <<>>, SplitSegments(normalizePath(path)), factory)

NoMatch == <<>>

\* staticChildren is a plain object ({}): staticChildren[segment] is also
\* truthy for a segment that names a property every object inherits
\* ('constructor', 'toString', '__proto__', ...), and then current becomes
\* the inherited value, an object that has no staticChildren, paramChild,
\* wildcardChild or handlerFactory: with no segment left the walk answers
\* null, and with a segment left `current.staticChildren[segment]` throws
\* a TypeError.  The patterns registered in the model hold no such name.
InheritedNames == {"constructor"}
TypeError == << [threw |-> "TypeError"] >>

\* The walk of findHandlerFactory.  st = [current, fixedPath, params,
\* capturing, wildcardCapture].
RECURSIVE FindWalk(_, _, _)
\* FindWalk whose wildcard capture starts after the segment that took the
\* wildcard edge (C25_WildcardCapture tells the two apart)
FindWalkCapturesLater(t, st, segments) ==
    IF segments = <<>>
    THEN IF t[st.current].handlerFactory = NoFactory
         THEN NoMatch
         ELSE << [handlerFactory |-> t[st.current].handlerFactory,
                  fixedPath |-> JoinSegments(st.fixedPath),
                  params |-> IF st.capturing
                             THEN st.params @@ ("*" :> JoinSegments(st.wildcardCapture))
                             ELSE st.params] >>
    ELSE LET segment == Head(segments)
             static == Append(st.current, segment)
             param == Append(st.current, ParamEdge)
             wild == Append(st.current, WildEdge)
         IN
         IF st.capturing
         THEN FindWalk(t, [st EXCEPT !.wildcardCapture = Append(@, segment)], Tail(segments))
         ELSE IF segment \in InheritedNames /\ static \notin DOMAIN t
         THEN IF Tail(segments) = <<>> THEN NoMatch ELSE TypeError
         ELSE IF segment \notin {ParamEdge, WildEdge} /\ static \in DOMAIN t
         THEN FindWalk(t, [st EXCEPT !.current = static,
                                     !.fixedPath = Append(@, segment)], Tail(segments))
         ELSE IF param \in DOMAIN t
         THEN FindWalk(t, [st EXCEPT !.current = param,
                                     !.fixedPath = Append(@, ColonName(t[param].paramName)),
                                     !.params = (t[param].paramName :> <<segment>>) @@ @],
                       Tail(segments))
         ELSE IF wild \in DOMAIN t
         THEN FindWalk(t, [st EXCEPT !.current = wild,
                                     !.fixedPath = Append(@, "*"),
                                     !.capturing = TRUE,
                                     !.wildcardCapture = <<>>], Tail(segments))
         ELSE NoMatch

FindWalk(t, st, segments) ==
    IF segments = <<>>
    THEN IF t[st.current].handlerFactory = NoFactory
         THEN NoMatch
         ELSE << [handlerFactory |-> t[st.current].handlerFactory,
                  fixedPath |-> JoinSegments(st.fixedPath),
                  params |-> IF st.capturing
                             THEN st.params @@ ("*" :> JoinSegments(st.wildcardCapture))
                             ELSE st.params] >>
    ELSE LET segment == Head(segments)
             static == Append(st.current, segment)
             param == Append(st.current, ParamEdge)
             wild == Append(st.current, WildEdge)
         IN
         IF st.capturing
         THEN FindWalk(t, [st EXCEPT !.wildcardCapture = Append(@, segment)], Tail(segments))
         ELSE IF segment \in InheritedNames /\ static \notin DOMAIN t
         THEN IF Tail(segments) = <<>> THEN NoMatch ELSE TypeError
         ELSE IF segment \notin {ParamEdge, WildEdge} /\ static \in DOMAIN t
         THEN FindWalk(t, [st EXCEPT !.current = static,
                                     !.fixedPath = Append(@, segment)], Tail(segments))
         ELSE IF param \in DOMAIN t
         THEN FindWalk(t, [st EXCEPT !.current = param,
                                     !.fixedPath = Append(@, ColonName(t[param].paramName)),
                                     !.params = (t[param].paramName :> <<segment>>) @@ @],
                       Tail(segments))
         ELSE IF wild \in DOMAIN t
         THEN FindWalk(t, [st EXCEPT !.current = wild,
                                     !.fixedPath = Append(@, "*"),
                                     !.capturing = TRUE,
                                     !.wildcardCapture = <<segment>>], Tail(segments))
         ELSE NoMatch

NoParams == [n \in {} |-> <<>>]

findHandlerFactory(t, path) ==
    FindWalk(t,
             [current |-> <<>>, fixedPath |-> <<>>, params |-> NoParams,
              capturing |-> FALSE, wildcardCapture |-> <<>>],
             SplitSegments(normalizePath(path)))

\* The routes the application registers (routeConfigurer): '', 'dashboard'
\* and 'enter/:roomid'.  A factory is named after its page.
AppRoutes ==
    registerHandlerFactory(
        registerHandlerFactory(
            registerHandlerFactory(EmptyRoutes, <<>>, "index"),
            <<"dashboard">>, "dashboard"),
        <<"enter", Slash, ":roomid">>, "enter")


\* the registerHandlerFactory calls that built AppRoutes
AppRegistered ==
    << [path |-> <<>>, handlerFactory |-> "index"],
       [path |-> <<"dashboard">>, handlerFactory |-> "dashboard"],
       [path |-> <<"enter", Slash, ":roomid">>, handlerFactory |-> "enter"] >>

\* --------------------------------------------------------------- Navigator
\* Navigator.#isPatternMatching, on split segments
RECURSIVE PatternLoop(_, _, _)
PatternLoop(pattern, path, i) ==
    IF i > Len(pattern) THEN TRUE
    ELSE IF pattern[i] = "*" THEN TRUE
    ELSE IF StartsWithColon(pattern[i]) THEN PatternLoop(pattern, path, i + 1)
    ELSE IF pattern[i] # path[i] THEN FALSE
    ELSE PatternLoop(pattern, path, i + 1)

isPatternMatching(pattern, path) ==
    IF Len(pattern) = 0 /\ Len(path) = 0 THEN TRUE
    ELSE IF Len(pattern) < Len(path) /\ (pattern = <<>> \/ pattern[Len(pattern)] # "*") THEN FALSE
    ELSE IF Len(pattern) > Len(path) THEN FALSE
    ELSE PatternLoop(pattern, path, 1)

\* the test of #executePathUnmatchIgniters for one igniter
IgniterMatches(pattern, nextPath) ==
    isPatternMatching(SplitSegments(normalizePath(pattern)),
                      SplitSegments(normalizePath(nextPath)))

\* inputs: the paths handed to navigate() and found in window.location by
\* the popstate listener, the names handed to navigateSpecial(), the
\* patterns of the scope watchers a controller may return
NavPaths ==
    { <<"enter", Slash, "lab">>,
      <<Slash, "enter", Slash, Slash, "s33", Slash>>,
      <<"dashboard">>,
      <<"nope">> }
SpecialNames == {"notfound", "error"}
WatcherPatterns == { <<"enter", Slash, "*">> }

VARIABLES
    routes,               \* Router.#routes: the route tree
    registered,           \* the registerHandlerFactory calls made, in order
    found,                \* the last findHandlerFactory call: <<>> or <<[path, match]>>
    inherited,            \* the methods the controller classes leave to their base class
    specialRoutes,        \* Router.#specialRoutes (the registered names)
    prevInfo,             \* Navigator.#prevInfo: <<>> for null, else <<info>>
    prevHandler,          \* Navigator.#prevHandler: 0 for null, else a handler
    pathUnmatchIgniters,  \* Navigator.#pathUnmatchIgniters: watcher ids
    domClearIgniters,     \* Navigator.#domClearIgniters: cleanup ids
    handlers,             \* the controller instances, by identity
    watchers,             \* the scope watchers returned, by identity
    cleanups,             \* the deferred cleanups returned, by identity
    pc,                   \* where the running request is suspended
    req,                  \* the locals of the running (or last) request
    calls                 \* the calls the running (or last) request made

varsR == <<routes, registered, found, inherited>>

\* the state of the parts that are modelled on their own
VARIABLES
    overlapped,           \* the navigate calls of a Navigator that overlap, by their order
    transition7,          \* part_007: the #transition call that runs, and what awaits it
    prevInfo7,            \* part_007: Navigator.prevInfo (handler and pathFixed)
    suspended,            \* the request whose renderingFull awaits a navigateSpecial: <<>> or <<it>>
    matchCache,           \* RouteRegistry.#matchCache: the results kept, by the path asked
    applying,             \* DashboardHandler: the table body, and the #fetchAndApplyData call
    refresh               \* DashboardHandler: #refreshIntervalId, the timers, the calls that run

vars7 == <<transition7, prevInfo7>>
varsD == <<applying, refresh>>
varsS == <<overlapped, vars7, suspended, matchCache, varsD>>

vars == <<varsR, varsS, specialRoutes, prevInfo, prevHandler, pathUnmatchIgniters,
          domClearIgniters, handlers, watchers, cleanups, pc, req, calls>>

\* the state of a PageNavigator (spalib-bu-4.mjs), which reads the special
\* routes of its registry from specialRoutes
VARIABLES
    currentState,          \* #currentState: <<>> for null, else <<state>>
    pathWatchers,          \* #pathWatchers: the patterns of the watchers
    cleanupTasks,          \* #cleanupTasks
    isTransitioning,       \* #isTransitioning
    transitionController,  \* #transitionController: 0 for null, else its call
    aborted,               \* the calls whose AbortController was aborted
    tasks,                 \* the navigateTo calls, running or settled
    lastStarted            \* the latest navigateTo call

vars4 == <<currentState, pathWatchers, cleanupTasks, isTransitioning,
           transitionController, aborted, tasks, lastStarted>>

NoRequest ==
    [kind |-> "none", path |-> <<>>, stage |-> "main", special |-> "",
     matched |-> FALSE, factory |-> NoFactory, cause |-> <<>>,
     nextInfo |-> [rawPath |-> <<>>, fixedPath |-> <<>>, params |-> NoParams],
     nextHandler |-> 0, startInfo |-> <<>>, startHandler |-> 0,
     i |-> 0, remaining |-> <<>>,
     wi |-> 0, wpc |-> "none", di |-> 0, dpc |-> "none",
     result |-> "none"]

\* a navigateTo call: where it is suspended and its locals
NoTask ==
    [pc |-> "free", path |-> <<>>, fixedPath |-> <<>>, params |-> NoParams,
     strategy |-> "", handler |-> 0, stage |-> "main", special |-> "",
     it |-> <<>>, live |-> FALSE, active |-> <<>>, result |-> "none",
     fromHistory |-> FALSE]

\* the PageNavigator after its construction
Constructed4 ==
    /\ currentState = <<>>
    /\ pathWatchers = <<>>
    /\ cleanupTasks = <<>>
    /\ isTransitioning = FALSE
    /\ transitionController = 0
    /\ aborted = {}
    /\ tasks = [p \in 1..MaxInFlight |-> NoTask]
    /\ lastStarted = 0

\* ---- overlapping navigate calls of a Navigator: where each is suspended
\* and its locals.  w and d are the iterators of its for-of loops over
\* #pathUnmatchIgniters and #domClearIgniters: an iterator reads the array
\* it was made for, which is the array of the field (live) until the field
\* is assigned another array, and is arr from then on; on says that the
\* loop is suspended in a call
NoIter == [live |-> FALSE, arr |-> <<>>, i |-> 0, on |-> FALSE]
NewIter == [live |-> TRUE, arr |-> <<>>, i |-> 1, on |-> FALSE]
Unstarted ==
    [pc |-> "free", stage |-> "main", special |-> "",
     nextInfo |-> [rawPath |-> <<>>, fixedPath |-> <<>>, params |-> NoParams],
     factory |-> NoFactory, nextHandler |-> 0,
     w |-> NoIter, d |-> NoIter, remaining |-> <<>>, result |-> "none"]
Requests == 1..MaxOverlap

\* ---- the Navigator of part_007: the #transition call that runs.  caught
\* says that the call the request made is suspended in its try block, at
\* `await this.#transition(true, 'notfound')`.  Every other suspended call
\* hands on what the call it awaits returns or throws (it awaits in its
\* catch block, or it is the call for 'error', whose catch block throws
\* again), so it is not kept.
NoTransition ==
    [pc |-> "idle", is_special |-> FALSE, target |-> "", pathFixed |-> <<>>,
     caught |-> FALSE, result |-> "none"]
Constructed7 ==
    /\ transition7 = NoTransition
    /\ prevInfo7 = [handler |-> "none", pathFixed |-> <<>>]

\* ---- DashboardHandler (page/dashboard/main.mjs).  The table body as the
\* page's HTML has it, and no #fetchAndApplyData call made: rows are the
\* children of #dataTableBody, a row being [roomid, status]; the other
\* fields are the locals of the call that runs, and rooms (the entries it
\* was answered, sorted) is kept when it has returned
NoApplying ==
    [rows |-> <<>>, pc |-> "idle", returned |-> FALSE, rooms |-> <<>>,
     oldElements |-> <<>>, newElements |-> <<>>,
     procRowIndex |-> 0, oldElementsIndex |-> 0, newElementsIndex |-> 0]
\* a new DashboardHandler: #refreshIntervalId = null (0), no interval
\* timer started or active, no renderingFull call running (rendering
\* counts the calls suspended at each await of renderingFull), none
\* returned, no #fetchAndApplyData call of a timer awaiting the API,
\* cleanupFull not called
NoRefresh ==
    [refreshIntervalId |-> 0, timers |-> {}, started |-> 0,
     rendering |-> [a \in { "loadPage", "title", "fetch" } |-> 0],
     rendered |-> FALSE, fetches |-> 0, cleaned |-> FALSE]

\* ---- RouteRegistry.#matchCache = new Map()
EmptyCache == [path \in {} |-> <<>>]

\* the parts modelled on their own, before anything was done with them
Apart ==
    /\ overlapped = [p \in Requests |-> Unstarted]
    /\ Constructed7
    /\ suspended = <<>>
    /\ matchCache = EmptyCache
    /\ applying = NoApplying
    /\ refresh = NoRefresh

\* the Router after routeConfigurer has run
Configured ==
    /\ routes = AppRoutes
    /\ registered = AppRegistered
    /\ found = <<>>

Init ==
    /\ Configured
    /\ inherited = {}
    /\ specialRoutes \in SUBSET SpecialNames
    /\ Constructed4
    /\ Apart
    /\ prevInfo = <<>>
    /\ prevHandler = 0
    /\ pathUnmatchIgniters = <<>>
    /\ domClearIgniters = <<>>
    /\ handlers = <<>>
    /\ watchers = <<>>
    /\ cleanups = <<>>
    /\ pc = "idle"
    /\ req = NoRequest
    /\ calls = <<>>

\* ---- the call log and the outcomes of the calls
Call(op, id, res) == [op |-> op, id |-> id, res |-> res]
Logged(entries) == calls' = calls \o entries
\* a call returns or throws; a capability check answers or throws
Outcomes == {"ok", "throw"}
Answers == {"true", "false", "throw"}

\* what the methods of HandlerInterface do when a class does not override
\* them: renderingFull throws, the three capability checks return false,
\* renderingPartial and renderingInpage have an empty body and return
HandlerInterfaceMethods ==
    { "renderingFull", "canPartialTransferToNextPath", "canPartialReceiveFromPrevPath",
      "renderingPartial", "canInpageTransferTo", "renderingInpage" }
HandlerInterface(method) ==
    CASE method = "renderingFull" -> "throw"
      [] method \in { "canPartialTransferToNextPath", "canPartialReceiveFromPrevPath",
                      "canInpageTransferTo" } -> "false"
      [] method \in { "renderingPartial", "renderingInpage" } -> "ok"
\* the results a call of method can have: any of all when the class of
\* the controller overrides it, that of the base class when it does not
Results(method, all) ==
    IF method \in inherited THEN { HandlerInterface(method) } ELSE all

\* HandlerInterface has the partial and in-page methods,
\* SpecialHandlerInterface has not
HasPageMethods(h) == h # 0 /\ ~handlers[h].special

\* ---- object identities.  An object the navigator no longer references
\* when a request starts can no longer be called by it: its record is
\* dropped then.  The identities are names only, and the objects kept are
\* renamed when a request starts: the controller kept becomes 1, a callback
\* kept gets its place in its list.
Range(f) == {f[k] : k \in DOMAIN f}
FreshId(f) ==
    CHOOSE k \in 1..(Cardinality(DOMAIN f) + 1) :
        k \notin DOMAIN f /\ \A j \in 1..(k - 1) : j \in DOMAIN f
KeptHandler == IF prevHandler = 0 THEN 0 ELSE 1
KeptHandlers == IF prevHandler = 0 THEN <<>> ELSE << handlers[prevHandler] >>
Renumbered(list) == [k \in 1..Len(list) |-> k]

\* ---- bookkeeping of the callbacks a handoff registered
\* A record says whether its callback was returned in the running request
\* (fresh), whether the running request has reached a point that ends the
\* callback's wait (due), how often the callback was invoked (runs),
\* whether it was ever invoked in the request that returned it (early) and
\* whether it was ever invoked when not due (unasked).
NewCallback(pattern) ==
    [pattern |-> pattern, fresh |-> TRUE, due |-> FALSE, runs |-> 0,
     early |-> FALSE, unasked |-> FALSE]
Ran(cs, c) ==
    [cs EXCEPT ![c].runs = @ + 1,
               ![c].early = @ \/ cs[c].fresh,
               ![c].unasked = @ \/ ~cs[c].due]
\* a full transition starts: it ends the wait of every callback listed
DueByFull(cs) ==
    [c \in DOMAIN cs |-> [cs[c] EXCEPT !.due = TRUE]]
\* a request starts: the callbacks still listed are no longer fresh
Carried(cs, list) ==
    [k \in 1..Len(list) |-> [cs[list[k]] EXCEPT !.fresh = FALSE, !.due = FALSE]]

\* ---- requests
\* a request starts when none is running; MaxCleanups caps the count of the
\* cleanupFull calls a controller has received
CanStart ==
    /\ pc = "idle"
    /\ prevHandler # 0 => handlers[prevHandler].cleaned < MaxCleanups
NewRequest(kind, path) ==
    [NoRequest EXCEPT !.kind = kind, !.path = path,
                      !.startInfo = prevInfo, !.startHandler = KeptHandler,
                      !.result = "pending"]

\* the objects a starting request can still reach, under their new names
KeepReferenced ==
    /\ handlers' = KeptHandlers
    /\ prevHandler' = KeptHandler
    /\ cleanups' = Carried(cleanups, domClearIgniters)
    /\ pathUnmatchIgniters' = Renumbered(pathUnmatchIgniters)
    /\ domClearIgniters' = Renumbered(domClearIgniters)

\* #performTransition up to its first await
BeginTransition(kind, path) ==
    LET normalizedPath == normalizePath(path)
        routeMatch == findHandlerFactory(routes, normalizedPath)
        r == NewRequest(kind, path)
    IN  /\ calls' = <<>>
        /\ IF routeMatch = NoMatch
           THEN /\ req' = [r EXCEPT !.special = "notfound"]
                /\ pc' = "special"
                /\ watchers' = Carried(watchers, pathUnmatchIgniters)
           ELSE /\ req' = [r EXCEPT !.matched = TRUE,
                                    !.factory = routeMatch[1].handlerFactory,
                                    !.nextInfo = [rawPath |-> normalizedPath,
                                                  fixedPath |-> routeMatch[1].fixedPath,
                                                  params |-> routeMatch[1].params],
                                    !.i = 1]
                /\ pc' = "unmatch"
                /\ watchers' =
                     LET kept == Carried(watchers, pathUnmatchIgniters)
                     IN  [w \in DOMAIN kept |->
                            [kept[w] EXCEPT
                               !.due = ~IgniterMatches(kept[w].pattern, normalizedPath)]]
        /\ KeepReferenced
        /\ UNCHANGED <<vars4, varsR, varsS, specialRoutes, prevInfo>>

\* #performTransitionWithErrorHandling(path), which navigate(path) calls
\* after history.pushState and the popstate listener calls with the path of
\* window.location
PerformTransitionWithErrorHandling(path) ==
    /\ CanStart
    /\ BeginTransition("path", path)

\* navigateSpecial(target)
NavigateSpecial(target) ==
    /\ CanStart
    /\ calls' = <<>>
    /\ req' = [NewRequest("special", <<target>>) EXCEPT !.special = target]
    /\ pc' = "special"
    /\ watchers' = Carried(watchers, pathUnmatchIgniters)
    /\ KeepReferenced
    /\ UNCHANGED <<vars4, varsR, varsS, specialRoutes, prevInfo>>

\* Thrown that starts another transition to 'error' when the transition to
\* 'error' failed (C15_ErrorNeverRetried tells the two apart)
ThrownRetriesError(r, call) ==
    IF r.stage = "main" /\ ~(r.kind = "special" /\ r.path = <<"error">>)
    THEN /\ req' = [r EXCEPT !.stage = "recovery", !.special = "error",
                             !.cause = <<call>>]
         /\ calls' = <<>>
         /\ pc' = "special"
    ELSE /\ req' = [r EXCEPT !.special = "error"]
         /\ Logged(<<call>>)
         /\ pc' = "special"

\* Thrown without the recovery: the exception rejects the request
\* (C14_ErrorPageRecovers tells the two apart)
ThrownToCaller(r, call) ==
    /\ req' = [r EXCEPT !.result = "rejected"]
    /\ Logged(<<call>>)
    /\ pc' = "idle"

\* an exception leaves the running transition: the catch of
\* #performTransitionWithErrorHandling, and of
\* #performSpecialTransitionWithErrorHandling for a page other than 'error',
\* start #performSpecialTransition('error'); anything else rejects
\* (calls then holds the calls of the recovery, req.cause the call that threw)
Thrown(r, call) ==
    IF r.stage = "main" /\ ~(r.kind = "special" /\ r.path = <<"error">>)
    THEN /\ req' = [r EXCEPT !.stage = "recovery", !.special = "error",
                             !.cause = <<call>>]
         /\ calls' = <<>>
         /\ pc' = "special"
    ELSE /\ req' = [r EXCEPT !.result = "rejected"]
         /\ Logged(<<call>>)
         /\ pc' = "idle"

Resolved(r) ==
    /\ req' = [r EXCEPT !.result = "resolved"]
    /\ pc' = "idle"


\* ExecutePathUnmatchIgniters that keeps the matching igniters in reverse
\* order (C12_WatchersEvaluatedFirst tells the two apart)
ExecutePathUnmatchIgnitersReversed ==
    /\ pc = "unmatch"
    /\ IF req.i > Len(pathUnmatchIgniters)
       THEN /\ pathUnmatchIgniters' = req.remaining
            /\ req' = [req EXCEPT !.remaining = <<>>, !.i = 0]
            /\ pc' = "inpage"
            /\ UNCHANGED <<watchers, calls>>
       ELSE LET igniter == pathUnmatchIgniters[req.i] IN
            IF IgniterMatches(watchers[igniter].pattern, req.nextInfo.rawPath)
            THEN /\ req' = [req EXCEPT !.remaining = <<igniter>> \o @, !.i = @ + 1]
                 /\ UNCHANGED <<pathUnmatchIgniters, watchers, calls, pc>>
            ELSE \E res \in Outcomes :
                 /\ Logged(<< Call("onPathUnmatch.start", igniter, "-"),
                            Call("onPathUnmatch.end", igniter, res) >>)
                 /\ watchers' = Ran(watchers, igniter)
                 /\ req' = [req EXCEPT !.i = @ + 1]
                 /\ UNCHANGED <<pathUnmatchIgniters, pc>>
    /\ UNCHANGED <<vars4, varsR, varsS, specialRoutes, prevInfo, prevHandler, domClearIgniters,
                   handlers, cleanups>>

\* ExecutePathUnmatchIgniters that keeps the igniter it invoked
\* (C10_WatcherOnceSinceReturned tells the two apart)
ExecutePathUnmatchIgnitersKeepsInvoked ==
    /\ pc = "unmatch"
    /\ IF req.i > Len(pathUnmatchIgniters)
       THEN /\ pathUnmatchIgniters' = req.remaining
            /\ req' = [req EXCEPT !.remaining = <<>>, !.i = 0]
            /\ pc' = "inpage"
            /\ UNCHANGED <<watchers, calls>>
       ELSE LET igniter == pathUnmatchIgniters[req.i] IN
            IF IgniterMatches(watchers[igniter].pattern, req.nextInfo.rawPath)
            THEN /\ req' = [req EXCEPT !.remaining = Append(@, igniter), !.i = @ + 1]
                 /\ UNCHANGED <<pathUnmatchIgniters, watchers, calls, pc>>
            ELSE \E res \in Outcomes :
                 /\ Logged(<< Call("onPathUnmatch.start", igniter, "-"),
                            Call("onPathUnmatch.end", igniter, res) >>)
                 /\ watchers' = Ran(watchers, igniter)
                 /\ req' = [req EXCEPT !.remaining = Append(@, igniter), !.i = @ + 1]
                 /\ UNCHANGED <<pathUnmatchIgniters, pc>>
    /\ UNCHANGED <<vars4, varsR, varsS, specialRoutes, prevInfo, prevHandler, domClearIgniters,
                   handlers, cleanups>>

\* #executePathUnmatchIgniters, one igniter per step; the callback of an
\* igniter whose pattern no longer matches is awaited and its exception is
\* swallowed; after the last one the list is replaced by the kept ones
ExecutePathUnmatchIgniters ==
    /\ pc = "unmatch"
    /\ IF req.i > Len(pathUnmatchIgniters)
       THEN /\ pathUnmatchIgniters' = req.remaining
            /\ req' = [req EXCEPT !.remaining = <<>>, !.i = 0]
            /\ pc' = "inpage"
            /\ UNCHANGED <<watchers, calls>>
       ELSE LET igniter == pathUnmatchIgniters[req.i] IN
            IF IgniterMatches(watchers[igniter].pattern, req.nextInfo.rawPath)
            THEN /\ req' = [req EXCEPT !.remaining = Append(@, igniter), !.i = @ + 1]
                 /\ UNCHANGED <<pathUnmatchIgniters, watchers, calls, pc>>
            ELSE \E res \in Outcomes :
                 /\ Logged(<< Call("onPathUnmatch.start", igniter, "-"),
                            Call("onPathUnmatch.end", igniter, res) >>)
                 /\ watchers' = Ran(watchers, igniter)
                 /\ req' = [req EXCEPT !.i = @ + 1]
                 /\ UNCHANGED <<pathUnmatchIgniters, pc>>
    /\ UNCHANGED <<vars4, varsR, varsS, specialRoutes, prevInfo, prevHandler, domClearIgniters,
                   handlers, cleanups>>

\* InpageCheck without the comparison of the fixed paths at 965
\* (C35_BookkeepingConsistent tells the two apart)
InpageCheckAnyRoute ==
    /\ pc = "inpage"
    /\ IF prevInfo = <<>>
          \/ ~HasPageMethods(prevHandler)
       THEN /\ pc' = "create"
            /\ UNCHANGED calls
       ELSE \E res \in Results("canInpageTransferTo", Answers) :
            /\ Logged(<< Call("canInpageTransferTo", prevHandler, res) >>)
            /\ pc' = IF res = "true" THEN "renderingInpage" ELSE "create"
    /\ UNCHANGED <<vars4, varsR, varsS, specialRoutes, prevInfo, prevHandler, pathUnmatchIgniters,
                   domClearIgniters, handlers, watchers, cleanups, req>>


\* #performInpageTransition up to the answer of canInpageTransferTo; an
\* exception is caught by #tryTransitions, which goes on with the factory
InpageCheck ==
    /\ pc = "inpage"
    /\ IF prevInfo = <<>>
          \/ prevInfo[1].fixedPath # req.nextInfo.fixedPath
          \/ ~HasPageMethods(prevHandler)
       THEN /\ pc' = "create"
            /\ UNCHANGED calls
       ELSE \E res \in Results("canInpageTransferTo", Answers) :
            /\ Logged(<< Call("canInpageTransferTo", prevHandler, res) >>)
            /\ pc' = IF res = "true" THEN "renderingInpage" ELSE "create"
    /\ UNCHANGED <<vars4, varsR, varsS, specialRoutes, prevInfo, prevHandler, pathUnmatchIgniters,
                   domClearIgniters, handlers, watchers, cleanups, req>>

\* RenderingInpage without the assignment to #prevInfo (C2_InpageFrame tells
\* the two apart)
RenderingInpageKeepsInfo ==
    /\ pc = "renderingInpage"
    /\ \E res \in Results("renderingInpage", Outcomes) :
       /\ Logged(<< Call("renderingInpage", prevHandler, res) >>)
       /\ prevInfo' = prevInfo
       /\ IF res = "ok"
          THEN Resolved(req)
          ELSE pc' = "create" /\ req' = req
    /\ UNCHANGED <<vars4, varsR, varsS, specialRoutes, prevHandler, pathUnmatchIgniters,
                   domClearIgniters, handlers, watchers, cleanups>>

\* the rest of #performInpageTransition
RenderingInpage ==
    /\ pc = "renderingInpage"
    /\ \E res \in Results("renderingInpage", Outcomes) :
       /\ Logged(<< Call("renderingInpage", prevHandler, res) >>)
       /\ IF res = "ok"
          THEN /\ prevInfo' = <<req.nextInfo>>
               /\ Resolved(req)
          ELSE /\ prevInfo' = prevInfo
               /\ pc' = "create"
               /\ req' = req
    /\ UNCHANGED <<vars4, varsR, varsS, specialRoutes, prevHandler, pathUnmatchIgniters,
                   domClearIgniters, handlers, watchers, cleanups>>

\* a controller: by is the route factory whose create() made it (NoFactory
\* for a special controller, which a factory of #specialRoutes makes)
NewHandler(special, by) == [special |-> special, by |-> by, cleaned |-> 0]

\* step 2 of #tryTransitions: handlerFactory.create, outside of any try
CreateHandler ==
    /\ pc = "create"
    /\ \E res \in Outcomes :
       IF res = "ok"
       THEN /\ Logged(<< Call("create", FreshId(handlers), res) >>)
            /\ handlers' = handlers @@ (FreshId(handlers) :> NewHandler(FALSE, req.factory))
            /\ req' = [req EXCEPT !.nextHandler = FreshId(handlers)]
            /\ pc' = "partial"
       ELSE /\ handlers' = handlers
            /\ Thrown(req, Call("create", FreshId(handlers), res))
    /\ UNCHANGED <<vars4, varsR, varsS, specialRoutes, prevInfo, prevHandler, pathUnmatchIgniters,
                   domClearIgniters, watchers, cleanups>>

\* PartialCheck that goes on when the outgoing controller alone agrees
\* (C1_TierOrder tells the two apart)
PartialCheckOneSided ==
    /\ pc = "partial"
    /\ IF prevInfo = <<>> \/ ~HasPageMethods(prevHandler) \/ ~HasPageMethods(req.nextHandler)
       THEN /\ pc' = "full"
            /\ UNCHANGED calls
       ELSE \E canTransfer \in Results("canPartialTransferToNextPath", Answers),
               canReceive \in Results("canPartialReceiveFromPrevPath", Answers) :
            /\ Logged(<< Call("canPartialTransferToNextPath", prevHandler, canTransfer),
                         Call("canPartialReceiveFromPrevPath", req.nextHandler, canReceive) >>)
            /\ pc' = IF canTransfer = "true" /\ canReceive # "throw" THEN "prepare" ELSE "full"
    /\ UNCHANGED <<vars4, varsR, varsS, specialRoutes, prevInfo, prevHandler, pathUnmatchIgniters,
                   domClearIgniters, handlers, watchers, cleanups, req>>

\* #performPartialTransition up to the answers of the two capability
\* checks, which Promise.all starts one after the other; an exception is
\* caught by #tryTransitions, which goes on with the full transition
PartialCheck ==
    /\ pc = "partial"
    /\ IF prevInfo = <<>> \/ ~HasPageMethods(prevHandler) \/ ~HasPageMethods(req.nextHandler)
       THEN /\ pc' = "full"
            /\ UNCHANGED calls
       ELSE \E canTransfer \in Results("canPartialTransferToNextPath", Answers),
               canReceive \in Results("canPartialReceiveFromPrevPath", Answers) :
            /\ Logged(<< Call("canPartialTransferToNextPath", prevHandler, canTransfer),
                         Call("canPartialReceiveFromPrevPath", req.nextHandler, canReceive) >>)
            /\ pc' = IF canTransfer = "true" /\ canReceive = "true" THEN "prepare" ELSE "full"
    /\ UNCHANGED <<vars4, varsR, varsS, specialRoutes, prevInfo, prevHandler, pathUnmatchIgniters,
                   domClearIgniters, handlers, watchers, cleanups, req>>

\* what a preparePartialTransfer may return: pathUnmatchIgniters (null or a
\* list of watchers, given by their patterns) and domClearIgniter (null or
\* a callback); the opaque state is left out
Preparations ==
    { [pathUnmatchIgniters |-> ps, domClearIgniter |-> d] :
        ps \in {<<>>} \cup { <<p>> : p \in WatcherPatterns }, d \in BOOLEAN }
\* the ones that keep the two lists within MaxIgniters
WithinBounds(preparation) ==
    /\ Len(pathUnmatchIgniters) + Len(preparation.pathUnmatchIgniters) <= MaxIgniters
    /\ preparation.domClearIgniter => Len(domClearIgniters) < MaxIgniters

\* the callbacks of a preparation, recorded under fresh identities
RECURSIVE WithCallbacks(_, _)
WithCallbacks(cs, patterns) ==
    IF patterns = <<>> THEN cs
    ELSE WithCallbacks(cs @@ (FreshId(cs) :> NewCallback(Head(patterns))), Tail(patterns))

RECURSIVE NewIds(_, _)
NewIds(cs, patterns) ==
    IF patterns = <<>> THEN <<>>
    ELSE <<FreshId(cs)>> \o
         NewIds(cs @@ (FreshId(cs) :> NewCallback(Head(patterns))), Tail(patterns))

\* PreparePartialTransfer that does not push the returned domClearIgniter
\* (C3_PartialHandoff tells the two apart)
PreparePartialTransferDropsCleanup ==
    /\ pc = "prepare"
    /\ \E res \in Outcomes :
       /\ Logged(<< Call("preparePartialTransfer", prevHandler, res) >>)
       /\ IF res = "ok"
          THEN \E preparation \in {p \in Preparations : WithinBounds(p)} :
               LET ps == preparation.pathUnmatchIgniters
                   ds == IF preparation.domClearIgniter THEN << <<>> >> ELSE <<>>
               IN  /\ watchers' = WithCallbacks(watchers, ps)
                   /\ pathUnmatchIgniters' = pathUnmatchIgniters \o NewIds(watchers, ps)
                   /\ cleanups' = WithCallbacks(cleanups, ds)
                   /\ domClearIgniters' = domClearIgniters
               /\ pc' = "renderingPartial"
          ELSE /\ pc' = "full"
               /\ UNCHANGED <<watchers, pathUnmatchIgniters, cleanups, domClearIgniters>>
    /\ UNCHANGED <<vars4, varsR, varsS, specialRoutes, prevInfo, prevHandler, handlers, req>>

\* preparePartialTransfer of the outgoing controller, and the merge of what
\* it returned into the two lists
PreparePartialTransfer ==
    /\ pc = "prepare"
    /\ \E res \in Outcomes :
       /\ Logged(<< Call("preparePartialTransfer", prevHandler, res) >>)
       /\ IF res = "ok"
          THEN \E preparation \in {p \in Preparations : WithinBounds(p)} :
               LET ps == preparation.pathUnmatchIgniters
                   ds == IF preparation.domClearIgniter THEN << <<>> >> ELSE <<>>
               IN  /\ watchers' = WithCallbacks(watchers, ps)
                   /\ pathUnmatchIgniters' = pathUnmatchIgniters \o NewIds(watchers, ps)
                   /\ cleanups' = WithCallbacks(cleanups, ds)
                   /\ domClearIgniters' = domClearIgniters \o NewIds(cleanups, ds)
               /\ pc' = "renderingPartial"
          ELSE /\ pc' = "full"
               /\ UNCHANGED <<watchers, pathUnmatchIgniters, cleanups, domClearIgniters>>
    /\ UNCHANGED <<vars4, varsR, varsS, specialRoutes, prevInfo, prevHandler, handlers, req>>

\* renderingPartial of the incoming controller and the state update
RenderingPartial ==
    /\ pc = "renderingPartial"
    /\ \E res \in Results("renderingPartial", Outcomes) :
       /\ Logged(<< Call("renderingPartial", req.nextHandler, res) >>)
       /\ IF res = "ok"
          THEN /\ prevInfo' = <<req.nextInfo>>
               /\ prevHandler' = req.nextHandler
               /\ Resolved(req)
          ELSE /\ UNCHANGED <<prevInfo, prevHandler, req>>
               /\ pc' = "full"
    /\ UNCHANGED <<vars4, varsR, varsS, specialRoutes, pathUnmatchIgniters, domClearIgniters,
                   handlers, watchers, cleanups>>


\* #performFullTransition up to its first await: Promise.all calls
\* #executeAllPathUnmatchIgniters, which runs until it awaits its first
\* callback (or, with no watcher, to its end), and then
\* #executeAllDomClearIgniters, which does the same.  A callback may have
\* completed by the time it returns (wsync) or later.
PerformFullTransition ==
    /\ pc = "full"
    /\ \E wsync \in BOOLEAN, wres \in Outcomes :
       LET noW == pathUnmatchIgniters = <<>>
           noD == domClearIgniters = <<>>
           wcalls == IF noW THEN <<>>
                     ELSE << Call("onPathUnmatch.start", pathUnmatchIgniters[1], "-") >> \o
                          (IF wsync
                           THEN << Call("onPathUnmatch.end", pathUnmatchIgniters[1], wres) >>
                           ELSE <<>>)
           dcalls == IF noD THEN <<>>
                     ELSE << Call("domClear.start", domClearIgniters[1], "-") >>
       IN  /\ (noW \/ ~wsync) => wres = "ok"
           /\ noW => ~wsync
           /\ Logged(wcalls \o dcalls)
           /\ req' = [req EXCEPT
                        !.wi = IF noW THEN 0 ELSE 1,
                        !.wpc = IF noW THEN "done" ELSE IF wsync THEN "resume" ELSE "await",
                        !.di = IF noD THEN 0 ELSE 1,
                        !.dpc = IF noD THEN "done" ELSE "await"]
           /\ watchers' = IF noW THEN DueByFull(watchers)
                           ELSE Ran(DueByFull(watchers), pathUnmatchIgniters[1])
           /\ cleanups' = IF noD THEN DueByFull(cleanups)
                           ELSE Ran(DueByFull(cleanups), domClearIgniters[1])
    /\ pc' = "flush"
    /\ UNCHANGED <<vars4, varsR, varsS, specialRoutes, prevInfo, prevHandler, pathUnmatchIgniters,
                   domClearIgniters, handlers>>

\* #executeAllPathUnmatchIgniters resumes after the callback it awaited:
\* the callback's promise has settled (an exception is swallowed), and the
\* next callback is called, or the list is reset
ExecuteAllPathUnmatchIgniters ==
    /\ pc = "flush"
    /\ req.wpc \in {"await", "resume"}
    /\ \E res \in Outcomes :
       LET ended == IF req.wpc = "await"
                    THEN << Call("onPathUnmatch.end", pathUnmatchIgniters[req.wi], res) >>
                    ELSE <<>>
       IN  /\ req.wpc = "resume" => res = "ok"
           /\ IF req.wi < Len(pathUnmatchIgniters)
              THEN /\ Logged(ended \o << Call("onPathUnmatch.start",
                                              pathUnmatchIgniters[req.wi + 1], "-") >>)
                   /\ watchers' = Ran(watchers, pathUnmatchIgniters[req.wi + 1])
                   /\ req' = [req EXCEPT !.wi = @ + 1, !.wpc = "await"]
                   /\ pathUnmatchIgniters' = pathUnmatchIgniters
              ELSE /\ Logged(ended)
                   /\ pathUnmatchIgniters' = <<>>
                   /\ req' = [req EXCEPT !.wpc = "done"]
                   /\ watchers' = watchers
    /\ UNCHANGED <<vars4, varsR, varsS, specialRoutes, prevInfo, prevHandler, domClearIgniters,
                   handlers, cleanups, pc>>

\* ExecuteAllDomClearIgniters with no try around the callback: its exception
\* leaves the loop and fails the transition
\* (C20_TeardownSurvivesThrow tells the two apart)
ExecuteAllDomClearIgnitersUnguarded ==
    /\ pc = "flush"
    /\ req.dpc = "await"
    /\ \E res \in Outcomes :
       LET ended == << Call("domClear.end", domClearIgniters[req.di], res) >>
       IN  IF res = "throw"
           THEN /\ Thrown(req, ended[1])
                /\ UNCHANGED <<domClearIgniters, cleanups>>
           ELSE /\ pc' = pc
                /\ IF req.di < Len(domClearIgniters)
                   THEN /\ Logged(ended \o << Call("domClear.start",
                                                   domClearIgniters[req.di + 1], "-") >>)
                        /\ cleanups' = Ran(cleanups, domClearIgniters[req.di + 1])
                        /\ req' = [req EXCEPT !.di = @ + 1]
                        /\ domClearIgniters' = domClearIgniters
                   ELSE /\ Logged(ended)
                        /\ domClearIgniters' = <<>>
                        /\ req' = [req EXCEPT !.dpc = "done"]
                        /\ cleanups' = cleanups
    /\ UNCHANGED <<vars4, varsR, varsS, specialRoutes, prevInfo, prevHandler, pathUnmatchIgniters,
                   handlers, watchers>>


\* #executeAllDomClearIgniters resumes after the callback it awaited
ExecuteAllDomClearIgniters ==
    /\ pc = "flush"
    /\ req.dpc = "await"
    /\ \E res \in Outcomes :
       LET ended == << Call("domClear.end", domClearIgniters[req.di], res) >>
       IN  IF req.di < Len(domClearIgniters)
           THEN /\ Logged(ended \o << Call("domClear.start",
                                           domClearIgniters[req.di + 1], "-") >>)
                /\ cleanups' = Ran(cleanups, domClearIgniters[req.di + 1])
                /\ req' = [req EXCEPT !.di = @ + 1]
                /\ domClearIgniters' = domClearIgniters
           ELSE /\ Logged(ended)
                /\ domClearIgniters' = <<>>
                /\ req' = [req EXCEPT !.dpc = "done"]
                /\ cleanups' = cleanups
    /\ UNCHANGED <<vars4, varsR, varsS, specialRoutes, prevInfo, prevHandler, pathUnmatchIgniters,
                   handlers, watchers, pc>>

\* CleanupFull that does not wait for the deferred cleanups
\* (C11_CleanupAtNextFull tells the two apart)
CleanupFullBeforeCleanups ==
    /\ pc = "flush"
    /\ req.wpc = "done"
    /\ IF prevHandler # 0
       THEN \E res \in Outcomes :
            /\ Logged(<< Call("cleanupFull", prevHandler, res) >>)
            /\ handlers' = [handlers EXCEPT ![prevHandler].cleaned = @ + 1]
       ELSE UNCHANGED <<calls, handlers>>
    /\ pc' = "getTitle"
    /\ UNCHANGED <<vars4, varsR, varsS, specialRoutes, prevInfo, prevHandler, pathUnmatchIgniters,
                   domClearIgniters, watchers, cleanups, req>>

\* Promise.all has resolved: cleanupFull of the previous handler, whose
\* exception is swallowed
CleanupFull ==
    /\ pc = "flush"
    /\ req.wpc = "done"
    /\ req.dpc = "done"
    /\ IF prevHandler # 0
       THEN \E res \in Outcomes :
            /\ Logged(<< Call("cleanupFull", prevHandler, res) >>)
            /\ handlers' = [handlers EXCEPT ![prevHandler].cleaned = @ + 1]
       ELSE UNCHANGED <<calls, handlers>>
    /\ pc' = "getTitle"
    /\ UNCHANGED <<vars4, varsR, varsS, specialRoutes, prevInfo, prevHandler, pathUnmatchIgniters,
                   domClearIgniters, watchers, cleanups, req>>

GetTitle ==
    /\ pc = "getTitle"
    /\ \E res \in Outcomes :
       IF res = "ok"
       THEN /\ Logged(<< Call("getTitle", req.nextHandler, res) >>)
            /\ pc' = "getHtmlAssetPath"
            /\ req' = req
       ELSE Thrown(req, Call("getTitle", req.nextHandler, res))
    /\ UNCHANGED <<vars4, varsR, varsS, specialRoutes, prevInfo, prevHandler, pathUnmatchIgniters,
                   domClearIgniters, handlers, watchers, cleanups>>

\* getHtmlAssetPath answers null ("none") or a path ("path")
GetHtmlAssetPath ==
    /\ pc = "getHtmlAssetPath"
    /\ \E res \in {"none", "path", "throw"} :
       IF res = "throw"
       THEN Thrown(req, Call("getHtmlAssetPath", req.nextHandler, res))
       ELSE /\ Logged(<< Call("getHtmlAssetPath", req.nextHandler, res) >>)
            /\ pc' = IF res = "path" THEN "loadHtml" ELSE "renderingFull"
            /\ req' = req
    /\ UNCHANGED <<vars4, varsR, varsS, specialRoutes, prevInfo, prevHandler, pathUnmatchIgniters,
                   domClearIgniters, handlers, watchers, cleanups>>

\* assetLoader.loadHtml(pageContainer, htmlAssetPath)
LoadHtml ==
    /\ pc = "loadHtml"
    /\ \E res \in Outcomes :
       IF res = "ok"
       THEN /\ Logged(<< Call("loadHtml", req.nextHandler, res) >>)
            /\ pc' = "renderingFull"
            /\ req' = req
       ELSE Thrown(req, Call("loadHtml", req.nextHandler, res))
    /\ UNCHANGED <<vars4, varsR, varsS, specialRoutes, prevInfo, prevHandler, pathUnmatchIgniters,
                   domClearIgniters, handlers, watchers, cleanups>>

\* RenderingFull that stores the route info of a special page as well
\* (C13_NotFoundRendered tells the two apart)
RenderingFullStoresInfo ==
    /\ pc = "renderingFull"
    /\ \E res \in Results("renderingFull", Outcomes) :
       IF res = "ok"
       THEN /\ Logged(<< Call("renderingFull", req.nextHandler, res) >>)
            /\ prevInfo' = <<req.nextInfo>>
            /\ prevHandler' = req.nextHandler
            /\ Resolved(req)
       ELSE /\ UNCHANGED <<prevInfo, prevHandler>>
            /\ Thrown(req, Call("renderingFull", req.nextHandler, res))
    /\ UNCHANGED <<vars4, varsR, varsS, specialRoutes, pathUnmatchIgniters, domClearIgniters,
                   handlers, watchers, cleanups>>

\* renderingFull of the incoming controller and the state update; nextInfo
\* is null in the full transition of a special page
RenderingFull ==
    /\ pc = "renderingFull"
    /\ \E res \in Results("renderingFull", Outcomes) :
       IF res = "ok"
       THEN /\ Logged(<< Call("renderingFull", req.nextHandler, res) >>)
            /\ prevInfo' = IF req.special # "" THEN <<>> ELSE <<req.nextInfo>>
            /\ prevHandler' = req.nextHandler
            /\ Resolved(req)
       ELSE /\ UNCHANGED <<prevInfo, prevHandler>>
            /\ Thrown(req, Call("renderingFull", req.nextHandler, res))
    /\ UNCHANGED <<vars4, varsR, varsS, specialRoutes, pathUnmatchIgniters, domClearIgniters,
                   handlers, watchers, cleanups>>

\* PerformSpecialTransition that turns to 'error' by itself when the page
\* asked for is not registered (C28_RequestTerminates tells the two apart)
PerformSpecialTransitionFallsBack ==
    /\ pc = "special"
    /\ IF req.special \notin specialRoutes /\ req.special # "error"
       THEN /\ handlers' = handlers
            /\ Logged(<< Call("findSpecialHandlerFactory", 0, "missing") >>)
            /\ req' = [req EXCEPT !.special = "error"]
            /\ pc' = "special"
       ELSE IF req.special \notin specialRoutes
       THEN /\ handlers' = handlers
            /\ Thrown(req, Call("findSpecialHandlerFactory", 0, "missing"))
       ELSE \E res \in Outcomes :
            IF res = "ok"
            THEN /\ Logged(<< Call("createSpecial", FreshId(handlers), res) >>)
                 /\ handlers' = handlers @@ (FreshId(handlers) :> NewHandler(TRUE, NoFactory))
                 /\ req' = [req EXCEPT !.nextHandler = FreshId(handlers)]
                 /\ pc' = "full"
            ELSE /\ handlers' = handlers
                 /\ Thrown(req, Call("createSpecial", FreshId(handlers), res))
    /\ UNCHANGED <<vars4, varsR, varsS, specialRoutes, prevInfo, prevHandler, pathUnmatchIgniters,
                   domClearIgniters, watchers, cleanups>>

\* #performSpecialTransition up to the full transition: the lookup of the
\* special factory, which throws for an unregistered name, and its create
PerformSpecialTransition ==
    /\ pc = "special"
    /\ IF req.special \notin specialRoutes
       THEN /\ handlers' = handlers
            /\ Thrown(req, Call("findSpecialHandlerFactory", 0, "missing"))
       ELSE \E res \in Outcomes :
            IF res = "ok"
            THEN /\ Logged(<< Call("createSpecial", FreshId(handlers), res) >>)
                 /\ handlers' = handlers @@ (FreshId(handlers) :> NewHandler(TRUE, NoFactory))
                 /\ req' = [req EXCEPT !.nextHandler = FreshId(handlers)]
                 /\ pc' = "full"
            ELSE /\ handlers' = handlers
                 /\ Thrown(req, Call("createSpecial", FreshId(handlers), res))
    /\ UNCHANGED <<vars4, varsR, varsS, specialRoutes, prevInfo, prevHandler, pathUnmatchIgniters,
                   domClearIgniters, watchers, cleanups>>

Next ==
    \/ \E path \in NavPaths : PerformTransitionWithErrorHandling(path)
    \/ \E target \in SpecialNames : NavigateSpecial(target)
    \/ ExecutePathUnmatchIgniters
    \/ InpageCheck
    \/ RenderingInpage
    \/ CreateHandler
    \/ PartialCheck
    \/ PreparePartialTransfer
    \/ RenderingPartial
    \/ PerformFullTransition
    \/ ExecuteAllPathUnmatchIgniters
    \/ ExecuteAllDomClearIgniters
    \/ CleanupFull
    \/ GetTitle
    \/ GetHtmlAssetPath
    \/ LoadHtml
    \/ RenderingFull
    \/ PerformSpecialTransition

Spec == Init /\ [][Next]_<<vars, vars4>>

\* ---- every call the navigator awaits settles: a running request takes
\* its next step
RequestStep == pc # "idle" /\ Next
SpecLive == Spec /\ WF_<<vars, vars4>>(RequestStep)

\* ---- a Navigator with both special pages registered whose last
\* navigations, partial transitions that ended at 'enter/lab', were handed
\* scope watchers (1002-1004 pushes as many as the array returned holds)
\* and deferred cleanups (one per partial transition), MaxListed in all
ListedPatterns == { <<"enter", Slash, "*">>, <<"dashboard">> }
ListedWatchers ==
    UNION { [1..n -> ListedPatterns] : n \in 0..MaxListed }
OnListedPage ==
    /\ specialRoutes = SpecialNames
    /\ Constructed4
    /\ Apart
    /\ \E routeMatch \in Range(findHandlerFactory(AppRoutes, <<"enter", Slash, "lab">>)) :
         /\ prevInfo = << [rawPath |-> <<"enter", Slash, "lab">>,
                           fixedPath |-> routeMatch.fixedPath,
                           params |-> routeMatch.params] >>
         /\ handlers = << NewHandler(FALSE, routeMatch.handlerFactory) >>
    /\ prevHandler = 1
    /\ \E listed \in ListedWatchers, n \in 0..MaxListed :
         /\ Len(listed) + n <= MaxListed
         /\ pathUnmatchIgniters = Renumbered(listed)
         /\ watchers = [k \in DOMAIN listed |->
                           [NewCallback(listed[k]) EXCEPT !.fresh = FALSE]]
         /\ domClearIgniters = [k \in 1..n |-> k]
         /\ cleanups = [k \in 1..n |-> [NewCallback(<<>>) EXCEPT !.fresh = FALSE]]
    /\ pc = "idle"
    /\ req = NoRequest
    /\ calls = <<>>

InitListed ==
    /\ Configured
    /\ inherited = {}
    /\ OnListedPage

\* the navigation that follows, to its end
FirstNavigation(path) ==
    /\ req.kind = "none"
    /\ PerformTransitionWithErrorHandling(path)

NextListed ==
    \/ \E path \in NavPaths : FirstNavigation(path)
    \/ ExecutePathUnmatchIgniters
    \/ InpageCheck
    \/ RenderingInpage
    \/ CreateHandler
    \/ PartialCheck
    \/ PreparePartialTransfer
    \/ RenderingPartial
    \/ PerformFullTransition
    \/ ExecuteAllPathUnmatchIgniters
    \/ ExecuteAllDomClearIgniters
    \/ CleanupFull
    \/ GetTitle
    \/ GetHtmlAssetPath
    \/ LoadHtml
    \/ RenderingFull
    \/ PerformSpecialTransition

SpecListed == InitListed /\ [][NextListed]_<<vars, vars4>>

\* ---- controllers whose classes keep methods of HandlerInterface: either
\* the two render entry points of the in-page and partial tiers, with the
\* capability checks overridden, or all six methods
InheritedChoices ==
    { { "renderingPartial", "renderingInpage" }, HandlerInterfaceMethods }

InitInherited ==
    /\ Configured
    /\ inherited \in InheritedChoices
    /\ OnListedPage

SpecInherited == InitInherited /\ [][NextListed]_<<vars, vars4>>

\* ---- navigate calls that overlap.  The Navigator has no guard against a
\* call that starts while another is suspended: each call runs the code of
\* #performTransition on the fields of the one Navigator.  What runs
\* between two awaits of a call runs without interruption, so a step below
\* goes from the settling of what a call awaited to its next await of a
\* call of application code (a callback, a factory, a lifecycle method).
\* The calls start at 'enter/lab', with watchers and cleanups listed.
OverlapPaths == { <<Slash, "enter", Slash, Slash, "s33", Slash>>, <<"dashboard">>, <<"nope">> }

\* the Navigator's fields and the calls, as one value
Machine ==
    [ws |-> pathUnmatchIgniters, ds |-> domClearIgniters, W |-> watchers,
     C |-> cleanups, info |-> prevInfo, handler |-> prevHandler,
     hs |-> handlers, rs |-> overlapped]
Becomes(m) ==
    /\ pathUnmatchIgniters' = m.ws
    /\ domClearIgniters' = m.ds
    /\ watchers' = m.W
    /\ cleanups' = m.C
    /\ prevInfo' = m.info
    /\ prevHandler' = m.handler
    /\ handlers' = m.hs
    /\ overlapped' = m.rs
    /\ UNCHANGED <<vars4, varsR, vars7, suspended, matchCache, varsD, specialRoutes, pc, req,
                   calls>>

\* this.#pathUnmatchIgniters = array: the loops that read the array of the
\* field go on with the array they were made for
AssignWatchers(m, array) ==
    [m EXCEPT !.ws = array,
              !.rs = [q \in DOMAIN m.rs |->
                        IF m.rs[q].w.live
                        THEN [m.rs[q] EXCEPT !.w.live = FALSE, !.w.arr = m.ws]
                        ELSE m.rs[q]]]
\* this.#domClearIgniters = array
AssignCleanups(m, array) ==
    [m EXCEPT !.ds = array,
              !.rs = [q \in DOMAIN m.rs |->
                        IF m.rs[q].d.live
                        THEN [m.rs[q] EXCEPT !.d.live = FALSE, !.d.arr = m.ds]
                        ELSE m.rs[q]]]
WatchersRead(m, p) == IF m.rs[p].w.live THEN m.ws ELSE m.rs[p].w.arr
CleanupsRead(m, p) == IF m.rs[p].d.live THEN m.ds ELSE m.rs[p].d.arr

\* an exception leaves #performTransition: the catch of
\* #performTransitionWithErrorHandling starts the transition to 'error',
\* whose own exception rejects the call
Rethrown(m, p) ==
    IF m.rs[p].stage = "main" /\ "error" \in specialRoutes
    THEN [m EXCEPT !.rs[p].stage = "recovery", !.rs[p].special = "error",
                   !.rs[p].pc = "createSpecial"]
    ELSE [m EXCEPT !.rs[p] = [Unstarted EXCEPT !.pc = "done", !.result = "rejected"]]
Settled(m, p) ==
    [m EXCEPT !.rs[p] = [Unstarted EXCEPT !.pc = "done", !.result = "resolved"]]

\* #executeAllPathUnmatchIgniters from where its loop stands to its next
\* await, or to its end
AllWatchersOn(m, p) ==
    LET array == WatchersRead(m, p)
        i == m.rs[p].w.i
    IN  IF i <= Len(array)
        THEN [m EXCEPT !.W[array[i]].runs = @ + 1,
                       !.rs[p].w.i = i + 1, !.rs[p].w.on = TRUE]
        ELSE AssignWatchers([m EXCEPT !.rs[p].w = NoIter], <<>>)
\* #executeAllDomClearIgniters likewise
AllCleanupsOn(m, p) ==
    LET array == CleanupsRead(m, p)
        i == m.rs[p].d.i
    IN  IF i <= Len(array)
        THEN [m EXCEPT !.C[array[i]].runs = @ + 1,
                       !.rs[p].d.i = i + 1, !.rs[p].d.on = TRUE]
        ELSE AssignCleanups([m EXCEPT !.rs[p].d = NoIter], <<>>)
\* what follows the Promise.all of the two loops once both are over:
\* cleanupFull of the controller of #prevHandler, or getTitle of the next
AfterTeardown(m, p) ==
    IF m.rs[p].w.on \/ m.rs[p].d.on THEN m
    ELSE IF m.handler # 0
    THEN [m EXCEPT !.rs[p].pc = "cleanupFull", !.hs[m.handler].cleaned = @ + 1]
    ELSE [m EXCEPT !.rs[p].pc = "rendering"]
\* #performFullTransition to its first await
FullStarts(m, p) ==
    LET m1 == AllWatchersOn([m EXCEPT !.rs[p].pc = "teardown", !.rs[p].w = NewIter], p)
        m2 == AllCleanupsOn([m1 EXCEPT !.rs[p].d = NewIter], p)
    IN  AfterTeardown(m2, p)

\* #tryTransitions to its first await: canInpageTransferTo of the
\* controller shown, or create of the factory
TiersStart(m, p) ==
    IF /\ m.info # <<>>
       /\ m.info[1].fixedPath = m.rs[p].nextInfo.fixedPath
       /\ m.handler # 0
       /\ ~m.hs[m.handler].special
    THEN [m EXCEPT !.rs[p].pc = "canInpageTransferTo"]
    ELSE [m EXCEPT !.rs[p].pc = "create"]

\* #executePathUnmatchIgniters from where its loop stands to its next
\* await, or to its end and on into #tryTransitions
RECURSIVE WatchersOn(_, _)
WatchersOn(m, p) ==
    LET array == WatchersRead(m, p)
        r == m.rs[p]
    IN  IF r.w.i > Len(array)
        THEN TiersStart(AssignWatchers([m EXCEPT !.rs[p].w = NoIter,
                                                 !.rs[p].remaining = <<>>],
                                       r.remaining), p)
        ELSE IF IgniterMatches(m.W[array[r.w.i]].pattern, r.nextInfo.rawPath)
        THEN WatchersOn([m EXCEPT !.rs[p].remaining = Append(@, array[r.w.i]),
                                  !.rs[p].w.i = @ + 1], p)
        ELSE [m EXCEPT !.W[array[r.w.i]].runs = @ + 1,
                       !.rs[p].w.i = @ + 1, !.rs[p].w.on = TRUE,
                       !.rs[p].pc = "onPathUnmatch"]

\* navigate(path), or a popstate at path, while the calls before it are
\* suspended or over
OverlappingNavigate(p, path) ==
    /\ overlapped[p].pc = "free"
    /\ \A q \in Requests : q < p => overlapped[q].pc # "free"
    /\ LET normalizedPath == normalizePath(path)
           routeMatch == findHandlerFactory(routes, normalizedPath)
           m == Machine
       IN  IF routeMatch = NoMatch
           THEN IF "notfound" \in specialRoutes
                THEN Becomes([m EXCEPT !.rs[p].special = "notfound",
                                       !.rs[p].pc = "createSpecial"])
                ELSE Becomes(Rethrown(m, p))
           ELSE Becomes(WatchersOn(
                  [m EXCEPT !.rs[p].nextInfo = [rawPath |-> normalizedPath,
                                                fixedPath |-> routeMatch[1].fixedPath,
                                                params |-> routeMatch[1].params],
                            !.rs[p].factory = routeMatch[1].handlerFactory,
                            !.rs[p].w = NewIter], p))

\* the onPathUnmatch that #executePathUnmatchIgniters awaited has settled
\* (an exception is logged)
OnPathUnmatchSettles(p) ==
    /\ overlapped[p].pc = "onPathUnmatch"
    /\ Becomes(WatchersOn([Machine EXCEPT !.rs[p].w.on = FALSE], p))

\* canInpageTransferTo has settled
CanInpageSettles(p) ==
    /\ overlapped[p].pc = "canInpageTransferTo"
    /\ \E res \in Results("canInpageTransferTo", Answers) :
         Becomes([Machine EXCEPT !.rs[p].pc =
                     IF res = "true" THEN "renderingInpage" ELSE "create"])

\* renderingInpage has settled
RenderingInpageSettles(p) ==
    /\ overlapped[p].pc = "renderingInpage"
    /\ \E res \in Results("renderingInpage", Outcomes) :
         IF res = "ok"
         THEN Becomes(Settled([Machine EXCEPT !.info = << overlapped[p].nextInfo >>], p))
         ELSE Becomes([Machine EXCEPT !.rs[p].pc = "create"])

\* create of the factory has settled: #performPartialTransition to the two
\* capability checks, or the full transition
CreateSettles3(p) ==
    /\ overlapped[p].pc = "create"
    /\ \E res \in Outcomes :
         IF res = "ok"
         THEN LET m == [Machine EXCEPT !.hs = Append(@, NewHandler(FALSE, overlapped[p].factory)),
                                       !.rs[p].nextHandler = Len(handlers) + 1]
              IN  IF m.info # <<>> /\ m.handler # 0 /\ ~m.hs[m.handler].special
                  THEN Becomes([m EXCEPT !.rs[p].pc = "canPartial"])
                  ELSE Becomes(FullStarts(m, p))
         ELSE Becomes(Rethrown(Machine, p))

\* the two capability checks have settled
CanPartialSettles(p) ==
    /\ overlapped[p].pc = "canPartial"
    /\ \E canTransfer \in Results("canPartialTransferToNextPath", Answers),
          canReceive \in Results("canPartialReceiveFromPrevPath", Answers) :
         IF canTransfer = "true" /\ canReceive = "true"
         THEN Becomes([Machine EXCEPT !.rs[p].pc = "preparePartialTransfer"])
         ELSE Becomes(FullStarts(Machine, p))

\* preparePartialTransfer has settled: the pushes to the arrays of the two
\* fields, and the call of renderingPartial
PreparationSettles3(p) ==
    /\ overlapped[p].pc = "preparePartialTransfer"
    /\ \E res \in Outcomes :
         IF res = "ok"
         THEN \E preparation \in Preparations :
                /\ Len(watchers) + Len(preparation.pathUnmatchIgniters) <= MaxListed
                /\ preparation.domClearIgniter => Len(cleanups) < MaxListed
                /\ LET ps == preparation.pathUnmatchIgniters
                       ds == IF preparation.domClearIgniter THEN << <<>> >> ELSE <<>>
                   IN  Becomes([Machine EXCEPT
                                  !.W = WithCallbacks(watchers, ps),
                                  !.ws = @ \o NewIds(watchers, ps),
                                  !.C = WithCallbacks(cleanups, ds),
                                  !.ds = @ \o NewIds(cleanups, ds),
                                  !.rs[p].pc = "renderingPartial"])
         ELSE Becomes(FullStarts(Machine, p))

\* renderingPartial has settled
RenderingPartialSettles(p) ==
    /\ overlapped[p].pc = "renderingPartial"
    /\ \E res \in Results("renderingPartial", Outcomes) :
         IF res = "ok"
         THEN Becomes(Settled([Machine EXCEPT !.info = << overlapped[p].nextInfo >>,
                                              !.handler = overlapped[p].nextHandler], p))
         ELSE Becomes(FullStarts(Machine, p))

\* create of a special factory has settled
CreateSpecialSettles3(p) ==
    /\ overlapped[p].pc = "createSpecial"
    /\ \E res \in Outcomes :
         IF res = "ok"
         THEN Becomes(FullStarts([Machine EXCEPT !.hs = Append(@, NewHandler(TRUE, NoFactory)),
                                                 !.rs[p].nextHandler = Len(handlers) + 1], p))
         ELSE Becomes(Rethrown(Machine, p))

\* the onPathUnmatch that #executeAllPathUnmatchIgniters awaited has settled
TeardownWatcherSettles(p) ==
    /\ overlapped[p].pc = "teardown"
    /\ overlapped[p].w.on
    /\ Becomes(AfterTeardown(AllWatchersOn([Machine EXCEPT !.rs[p].w.on = FALSE], p), p))

\* the cleanup that #executeAllDomClearIgniters awaited has settled
TeardownCleanupSettles(p) ==
    /\ overlapped[p].pc = "teardown"
    /\ overlapped[p].d.on
    /\ Becomes(AfterTeardown(AllCleanupsOn([Machine EXCEPT !.rs[p].d.on = FALSE], p), p))

\* cleanupFull has settled (an exception is logged)
CleanupFullSettles(p) ==
    /\ overlapped[p].pc = "cleanupFull"
    /\ Becomes([Machine EXCEPT !.rs[p].pc = "rendering"])

\* getTitle, getHtmlAssetPath, loadHtml and renderingFull of the next
\* controller have settled, none of which reads or writes a field: the
\* state update, or the exception of the first that threw
RenderingSettles(p) ==
    /\ overlapped[p].pc = "rendering"
    /\ \E res \in Results("renderingFull", Outcomes) :
         IF res = "ok"
         THEN Becomes(Settled([Machine EXCEPT
                                 !.info = IF overlapped[p].special # "" THEN <<>>
                                          ELSE << overlapped[p].nextInfo >>,
                                 !.handler = overlapped[p].nextHandler], p))
         ELSE Becomes(Rethrown(Machine, p))

NextOverlap ==
    \/ \E p \in Requests, path \in OverlapPaths : OverlappingNavigate(p, path)
    \/ \E p \in Requests : OnPathUnmatchSettles(p)
    \/ \E p \in Requests : CanInpageSettles(p)
    \/ \E p \in Requests : RenderingInpageSettles(p)
    \/ \E p \in Requests : CreateSettles3(p)
    \/ \E p \in Requests : CanPartialSettles(p)
    \/ \E p \in Requests : PreparationSettles3(p)
    \/ \E p \in Requests : RenderingPartialSettles(p)
    \/ \E p \in Requests : CreateSpecialSettles3(p)
    \/ \E p \in Requests : TeardownWatcherSettles(p)
    \/ \E p \in Requests : TeardownCleanupSettles(p)
    \/ \E p \in Requests : CleanupFullSettles(p)
    \/ \E p \in Requests : RenderingSettles(p)

\* the calls start with at most MaxIgniters entries in each list
InitOverlap ==
    /\ InitListed
    /\ Len(pathUnmatchIgniters) <= MaxIgniters
    /\ Len(domClearIgniters) <= MaxIgniters

SpecOverlap == InitOverlap /\ [][NextOverlap]_<<vars, vars4>>


\* ---- a renderingFull that navigates: the controller of a page calls
\* navigator.navigateSpecial(target) from its renderingFull, awaits it and
\* returns (EnterHandler.renderingFull does so for 'error' and
\* 'notfound').  The request that called renderingFull stays suspended at
\* `await nextHandler?.renderingFull?.()` while the special transition runs
\* on the same Navigator.
RenderingFullNavigates(target) ==
    /\ pc = "renderingFull"
    /\ req.special = ""
    /\ suspended = <<>>
    /\ suspended' = << [req |-> req, calls |-> calls] >>
    /\ req' = [NoRequest EXCEPT !.kind = "special", !.path = <<target>>,
                                !.special = target, !.startInfo = prevInfo,
                                !.startHandler = prevHandler, !.result = "pending"]
    /\ pc' = "special"
    /\ calls' = <<>>
    /\ UNCHANGED <<vars4, varsR, overlapped, vars7, matchCache, varsD, specialRoutes, prevInfo, prevHandler,
                   pathUnmatchIgniters, domClearIgniters, handlers, watchers, cleanups>>

\* navigateSpecial has settled: renderingFull returns, and the request that
\* awaited it goes on with its state update (1054-1055); or navigateSpecial
\* has rejected, and renderingFull throws that on
NavigateSpecialSettles ==
    /\ pc = "idle"
    /\ suspended # <<>>
    /\ suspended' = <<>>
    /\ LET outer == suspended[1].req IN
       IF req.result = "resolved"
       THEN /\ calls' = suspended[1].calls \o
                          << Call("navigateSpecial", prevHandler, "ok"),
                             Call("renderingFull", outer.nextHandler, "ok") >>
            /\ prevInfo' = << outer.nextInfo >>
            /\ prevHandler' = outer.nextHandler
            /\ Resolved(outer)
       ELSE /\ UNCHANGED <<prevInfo, prevHandler>>
            /\ Thrown(outer, Call("renderingFull", outer.nextHandler, "throw"))
    /\ UNCHANGED <<vars4, varsR, overlapped, vars7, matchCache, varsD, specialRoutes, pathUnmatchIgniters,
                   domClearIgniters, handlers, watchers, cleanups>>

NextNested ==
    \/ \E path \in NavPaths : FirstNavigation(path)
    \/ ExecutePathUnmatchIgniters
    \/ InpageCheck
    \/ RenderingInpage
    \/ CreateHandler
    \/ PartialCheck
    \/ PreparePartialTransfer
    \/ RenderingPartial
    \/ PerformFullTransition
    \/ ExecuteAllPathUnmatchIgniters
    \/ ExecuteAllDomClearIgniters
    \/ CleanupFull
    \/ GetTitle
    \/ GetHtmlAssetPath
    \/ LoadHtml
    \/ RenderingFull
    \/ PerformSpecialTransition
    \/ \E target \in SpecialNames : RenderingFullNavigates(target)
    \/ NavigateSpecialSettles

\* the request starts at 'enter/lab' with nothing listed
InitNested ==
    /\ InitListed
    /\ pathUnmatchIgniters = <<>>
    /\ domClearIgniters = <<>>

SpecNested == InitNested /\ [][NextNested]_<<vars, vars4>>


\* ---- a Router on its own: registerHandlerFactory and findHandlerFactory
\* called on a new Router, with patterns and paths that hold literal,
\* parameter and wildcard segments, a wildcard that is not the last
\* segment, two names for the parameter of one position, and leading,
\* trailing and doubled separators
RouterPatterns ==
    { <<>>,
      <<"a">>,
      <<"a", Slash, "b">>,
      <<Slash, "a", Slash, Slash, "b", Slash>>,
      <<"a", Slash, ":id">>,
      <<":id", Slash, "b">>,
      <<":roomid">>,
      <<"a", Slash, "*">>,
      <<"a", Slash, "*", Slash, "b">>,
      <<":id", Slash, "*">>,
      <<"*">> }
RouterPaths ==
    RouterPatterns \cup
    { <<Slash>>,
      <<"c">>,
      <<"a", Slash, "c">>,
      <<Slash, Slash, "a", Slash, Slash, "c", Slash>>,
      <<"a", Slash, "b", Slash, "c">>,
      <<"c", Slash, "b">>,
      <<"c", Slash, "b", Slash, "a">>,
      <<"a", Slash, "constructor">>,
      <<"a", Slash, "constructor", Slash, "b">> }
\* the factory handed to the k-th registerHandlerFactory call
FactoryNames == <<"f1", "f2", "f3", "f4", "f5", "f6">>

InitRouter ==
    /\ routes = EmptyRoutes
    /\ registered = <<>>
    /\ found = <<>>
    /\ inherited = {}
    /\ specialRoutes = {}
    /\ Constructed4
    /\ Apart
    /\ prevInfo = <<>>
    /\ prevHandler = 0
    /\ pathUnmatchIgniters = <<>>
    /\ domClearIgniters = <<>>
    /\ handlers = <<>>
    /\ watchers = <<>>
    /\ cleanups = <<>>
    /\ pc = "idle"
    /\ req = NoRequest
    /\ calls = <<>>

\* router.registerHandlerFactory(path, handlerFactory)
RegisterHandlerFactory(path) ==
    /\ Len(registered) < MaxRoutes
    /\ LET handlerFactory == FactoryNames[Len(registered) + 1] IN
       /\ routes' = registerHandlerFactory(routes, path, handlerFactory)
       /\ registered' = Append(registered, [path |-> path, handlerFactory |-> handlerFactory])
    /\ found' = <<>>
    /\ UNCHANGED <<vars4, varsS, inherited, specialRoutes, prevInfo, prevHandler, pathUnmatchIgniters,
                   domClearIgniters, handlers, watchers, cleanups, pc, req, calls>>

\* router.findHandlerFactory(path)
FindHandlerFactory(path) ==
    /\ found' = << [path |-> path, match |-> findHandlerFactory(routes, path)] >>
    /\ UNCHANGED <<vars4, varsS, routes, registered, inherited, specialRoutes, prevInfo, prevHandler,
                   pathUnmatchIgniters, domClearIgniters, handlers, watchers,
                   cleanups, pc, req, calls>>

NextRouter ==
    \/ \E path \in RouterPatterns : RegisterHandlerFactory(path)
    \/ \E path \in RouterPaths : FindHandlerFactory(path)

SpecRouter == InitRouter /\ [][NextRouter]_<<vars, vars4>>

\* ================================== RouteRegistry (spalib-bu-4.mjs), cached
\* ---- a RouteRegistry on its own: registerHandlerFactory,
\* findHandlerFactory and clearCache called in any order on a new
\* registry.  Two of the paths differ in their separators only, so that
\* they are two keys of the cache and one path of the trie.
RegistryPatterns ==
    { <<"a">>,
      <<"a", Slash, ":id">>,
      <<"a", Slash, "*">>,
      <<"*">> }
RegistryPaths ==
    { <<>>,
      <<"a">>,
      <<Slash, "a">>,
      <<"a", Slash, "b">>,
      <<"c">> }
\* the patterns handed to clearCache: none, or '^a'
ClearPatterns == { "", "^a" }
\* new RegExp(pattern).test(key), for the patterns of ClearPatterns
RegExpTest(pattern, key) ==
    pattern = "^a" /\ key # <<>> /\ Head(key) = "a"

\* findHandlerFactory(path) of a registry with the cache and the trie
\* given: what it returns (or throws), and the cache it leaves.  A walk
\* that throws stores nothing.
CachedFind(cache, t, path) ==
    IF path = <<>>
    THEN [answer |-> NoMatch, cache |-> cache]
    ELSE IF path \in DOMAIN cache
    THEN [answer |-> cache[path], cache |-> cache]
    ELSE LET result == findHandlerFactory(t, path) IN
         IF result = TypeError
         THEN [answer |-> result, cache |-> cache]
         ELSE [answer |-> result, cache |-> (path :> result) @@ cache]

\* RegistryRegister without `this.#matchCache.clear()` at 1037
\* (C36_CacheCoherent tells the two apart)
RegistryRegisterKeepsCache(path, valid) ==
    /\ Len(registered) < MaxRoutes
    /\ IF valid
       THEN LET handlerFactory == FactoryNames[Len(registered) + 1] IN
            /\ routes' = registerHandlerFactory(routes, path, handlerFactory)
            /\ registered' =
                 Append(registered, [path |-> path, handlerFactory |-> handlerFactory])
            /\ matchCache' = matchCache
       ELSE UNCHANGED <<routes, registered, matchCache>>
    /\ UNCHANGED <<vars4, found, inherited, overlapped, vars7, suspended, varsD, specialRoutes,
                   prevInfo, prevHandler, pathUnmatchIgniters, domClearIgniters,
                   handlers, watchers, cleanups, pc, req, calls>>

\* registry.registerHandlerFactory(path, handlerFactory): a factory that is
\* null or has no create method (valid = FALSE) makes it throw before it
\* has written anything
RegistryRegister(path, valid) ==
    /\ Len(registered) < MaxRoutes
    /\ IF valid
       THEN LET handlerFactory == FactoryNames[Len(registered) + 1] IN
            /\ routes' = registerHandlerFactory(routes, path, handlerFactory)
            /\ registered' =
                 Append(registered, [path |-> path, handlerFactory |-> handlerFactory])
            /\ matchCache' = EmptyCache
       ELSE UNCHANGED <<routes, registered, matchCache>>
    /\ UNCHANGED <<vars4, found, inherited, overlapped, vars7, suspended, varsD, specialRoutes,
                   prevInfo, prevHandler, pathUnmatchIgniters, domClearIgniters,
                   handlers, watchers, cleanups, pc, req, calls>>

\* registry.findHandlerFactory(path); earlier is what the call before it
\* answered when that call asked for the same path
RegistryFindHandlerFactory(path) ==
    /\ found' = << [path |-> path,
                    match |-> CachedFind(matchCache, routes, path).answer,
                    earlier |-> IF found # <<>> /\ found[1].path = path
                                THEN << found[1].match >> ELSE <<>>] >>
    /\ matchCache' = CachedFind(matchCache, routes, path).cache
    /\ UNCHANGED <<vars4, routes, registered, inherited, overlapped, vars7, suspended, varsD,
                   specialRoutes, prevInfo, prevHandler, pathUnmatchIgniters,
                   domClearIgniters, handlers, watchers, cleanups, pc, req, calls>>

\* registry.clearCache(pattern)
ClearCache(pattern) ==
    /\ matchCache' =
         IF pattern # ""
         THEN LET kept == { key \in DOMAIN matchCache : ~RegExpTest(pattern, key) }
              IN  [key \in kept |-> matchCache[key]]
         ELSE EmptyCache
    /\ UNCHANGED <<vars4, varsR, overlapped, vars7, suspended, varsD, specialRoutes,
                   prevInfo, prevHandler, pathUnmatchIgniters, domClearIgniters,
                   handlers, watchers, cleanups, pc, req, calls>>

NextRegistry ==
    \/ \E path \in RegistryPatterns, valid \in BOOLEAN : RegistryRegister(path, valid)
    \/ \E path \in RegistryPaths : RegistryFindHandlerFactory(path)
    \/ \E pattern \in ClearPatterns : ClearCache(pattern)

SpecRegistry == InitRouter /\ [][NextRegistry]_<<vars, vars4>>


\* ====================== DashboardHandler (page/dashboard/main.mjs), table
\* ---- #fetchAndApplyData on its own: calls one after another, each
\* answered any list of rooms, on the table body the call before it left
RoomNames == << "dome", "earth-lab", "s33", "darkroom" >>
RoomIds == { RoomNames[k] : k \in 1..MaxRooms }
\* sort_priority of a room
Priorities == { 1, 2 }
\* crowd_info.get(roomId).status, 0 when crowd_info has no entry
CrowdStatuses == { 0, 1 }
RoomEntries == [roomid : RoomIds, sort_priority : Priorities, crowd : CrowdStatuses]
\* what getRooms() and getCrowdStatus() answer: the entries of the Map, in
\* its order, a room at most once
RoomLists ==
    { rooms \in UNION { [1..n -> RoomEntries] : n \in 0..MaxRooms } :
        \A i, j \in DOMAIN rooms : i # j => rooms[i].roomid # rooms[j].roomid }

\* Array.prototype.sort with (a, b) => pa - pb: ascending, entries of one
\* priority in the order they had
InsertEntry(sorted, entry) ==
    LET n == Cardinality({ k \in DOMAIN sorted :
                             sorted[k].sort_priority <= entry.sort_priority })
    IN  SubSeq(sorted, 1, n) \o << entry >> \o SubSeq(sorted, n + 1, Len(sorted))
RECURSIVE SortedEntries(_)
SortedEntries(entries) ==
    IF entries = <<>> THEN <<>>
    ELSE InsertEntry(SortedEntries(SubSeq(entries, 1, Len(entries) - 1)),
                     entries[Len(entries)])

\* statusNumToTextLong (cmn.mjs), the texts named by their case
statusNumToTextLong(statusNum) ==
    CASE statusNum = 1 -> "long 1"
      [] statusNum = 2 -> "long 2"
      [] statusNum = 3 -> "long 3"
      [] statusNum = 4 -> "long 4"
      [] statusNum = 5 -> "long 5"
      [] OTHER -> "long default"
\* statusText of 112-118 on a desktop device
StatusText(crowd) ==
    IF crowd = 0 THEN "?" ELSE statusNumToTextLong(crowd)

\* tableBody.insertBefore(tr, tableBody.children[index]): appended when no
\* child has that index
InsertBefore(rows, tr, index) ==
    IF index >= Len(rows) THEN Append(rows, tr)
    ELSE SubSeq(rows, 1, index) \o << tr >> \o SubSeq(rows, index + 1, Len(rows))
\* tableBody.removeChild(tableBody.children[index])
RemoveChild(rows, index) ==
    SubSeq(rows, 1, index) \o SubSeq(rows, index + 2, Len(rows))

\* what the dashboard actions leave alone
RestD ==
    <<vars4, varsR, overlapped, vars7, suspended, matchCache, specialRoutes, prevInfo,
      prevHandler, pathUnmatchIgniters, domClearIgniters, handlers, watchers, cleanups,
      pc, req, calls>>

\* #fetchAndApplyData up to its while loop: the API answers or rejects; the
\* rows are read into oldElements, the rooms sorted into newElements
FetchAndApplyData(rooms_info, res) ==
    /\ applying.pc # "merging"
    /\ IF res = "ok"
       THEN LET rooms == SortedEntries(rooms_info) IN
            applying' =
              [applying EXCEPT
                 !.pc = "merging",
                 !.returned = FALSE,
                 !.rooms = rooms,
                 !.oldElements = applying.rows,
                 !.newElements = [k \in DOMAIN rooms |->
                                    [roomid |-> rooms[k].roomid,
                                     status |-> StatusText(rooms[k].crowd)]],
                 !.procRowIndex = 0,
                 !.oldElementsIndex = 0,
                 !.newElementsIndex = 0]
       ELSE applying' = applying
    /\ UNCHANGED <<RestD, refresh>>

\* MergeStep whose removal of a row advances procRowIndex too
\* (C37_TableReconciled tells the two apart)
MergeStepSkipsRow ==
    /\ applying.pc = "merging"
    /\ LET a == applying
           oldElement == IF a.oldElementsIndex < Len(a.oldElements)
                         THEN << a.oldElements[a.oldElementsIndex + 1] >> ELSE <<>>
           newElement == IF a.newElementsIndex < Len(a.newElements)
                         THEN << a.newElements[a.newElementsIndex + 1] >> ELSE <<>>
           differ == oldElement # <<>> /\ newElement # <<>>
                     /\ oldElement[1].roomid # newElement[1].roomid
       IN
       IF oldElement = <<>> /\ newElement = <<>>
       THEN applying' = [NoApplying EXCEPT !.rows = a.rows, !.rooms = a.rooms,
                                           !.returned = TRUE]
       ELSE IF oldElement = <<>> \/ differ
       THEN applying' = [a EXCEPT !.rows = InsertBefore(@, newElement[1], a.procRowIndex),
                                  !.newElementsIndex = @ + 1,
                                  !.procRowIndex = @ + 1]
       ELSE IF newElement = <<>> \/ differ
       THEN IF a.procRowIndex >= Len(a.rows)
            THEN applying' = [a EXCEPT !.pc = "threw"]
            ELSE applying' = [a EXCEPT !.rows = RemoveChild(@, a.procRowIndex),
                                       !.oldElementsIndex = @ + 1,
                                       !.procRowIndex = @ + 1]
       ELSE IF a.procRowIndex >= Len(a.rows)
            THEN applying' = [a EXCEPT !.pc = "threw"]
            ELSE applying' = [a EXCEPT !.rows[a.procRowIndex + 1] = newElement[1],
                                       !.oldElementsIndex = @ + 1,
                                       !.newElementsIndex = @ + 1,
                                       !.procRowIndex = @ + 1]
    /\ UNCHANGED <<RestD, refresh>>

\* one test of the while condition at 136 and, when it holds, one pass of
\* the loop body: a row is inserted, removed or rewritten.  Reading a child
\* the table body does not have gives undefined, and removeChild of it or
\* writing its innerHTML throws (pc "threw")
MergeStep ==
    /\ applying.pc = "merging"
    /\ LET a == applying
           oldElement == IF a.oldElementsIndex < Len(a.oldElements)
                         THEN << a.oldElements[a.oldElementsIndex + 1] >> ELSE <<>>
           newElement == IF a.newElementsIndex < Len(a.newElements)
                         THEN << a.newElements[a.newElementsIndex + 1] >> ELSE <<>>
           differ == oldElement # <<>> /\ newElement # <<>>
                     /\ oldElement[1].roomid # newElement[1].roomid
       IN
       IF oldElement = <<>> /\ newElement = <<>>
       THEN applying' = [NoApplying EXCEPT !.rows = a.rows, !.rooms = a.rooms,
                                           !.returned = TRUE]
       ELSE IF oldElement = <<>> \/ differ
       THEN applying' = [a EXCEPT !.rows = InsertBefore(@, newElement[1], a.procRowIndex),
                                  !.newElementsIndex = @ + 1,
                                  !.procRowIndex = @ + 1]
       ELSE IF newElement = <<>> \/ differ
       THEN IF a.procRowIndex >= Len(a.rows)
            THEN applying' = [a EXCEPT !.pc = "threw"]
            ELSE applying' = [a EXCEPT !.rows = RemoveChild(@, a.procRowIndex),
                                       !.oldElementsIndex = @ + 1]
       ELSE IF a.procRowIndex >= Len(a.rows)
            THEN applying' = [a EXCEPT !.pc = "threw"]
            ELSE applying' = [a EXCEPT !.rows[a.procRowIndex + 1] = newElement[1],
                                       !.oldElementsIndex = @ + 1,
                                       !.newElementsIndex = @ + 1,
                                       !.procRowIndex = @ + 1]
    /\ UNCHANGED <<RestD, refresh>>

NextMerge ==
    \/ \E rooms_info \in RoomLists, res \in Outcomes : FetchAndApplyData(rooms_info, res)
    \/ MergeStep

SpecMerge == InitRouter /\ [][NextMerge]_<<vars, vars4>>

\* the synchronous loop runs on: a call that has reached it takes its steps
SpecMergeLive == SpecMerge /\ WF_<<vars, vars4>>(MergeStep)


\* ===================== DashboardHandler (page/dashboard/main.mjs), timers
\* ---- the refresh timer of one DashboardHandler: the navigator calls
\* renderingFull once, the device calls onDeviceOrientationChange on the
\* controller shown, whether or not the call before has settled, and the
\* navigator calls cleanupFull when it leaves the page
Awaits == { "loadPage", "title", "fetch" }
Suspended(r) == r.rendering["loadPage"] + r.rendering["title"] + r.rendering["fetch"]
\* a renderingFull call goes from one await to the next, or settles
Moved(r, from, to) ==
    [r EXCEPT !.rendering =
        [a \in Awaits |-> r.rendering[a] - (IF a = from THEN 1 ELSE 0)
                                         + (IF a = to THEN 1 ELSE 0)]]

\* renderingFull up to its first await (41)
RenderingStarts ==
    /\ ~refresh.cleaned
    /\ Suspended(refresh) < MaxRenderings
    /\ refresh.started + Suspended(refresh) < MaxTimers
    /\ refresh' = Moved(refresh, "", "loadPage")
    /\ UNCHANGED <<RestD, applying>>

\* renderingFull(), called by the full transition that shows the page
DashboardRenderingFull ==
    /\ ~refresh.rendered
    /\ Suspended(refresh) = 0
    /\ refresh.started = 0
    /\ RenderingStarts

\* onDeviceOrientationChange(): `await this.renderingFull()`
OnDeviceOrientationChange ==
    /\ refresh.rendered
    /\ RenderingStarts

\* loadPageWithDevice settles (41-45); the TitleComponent is rendered next
LoadPageSettles ==
    /\ refresh.rendering["loadPage"] > 0
    /\ \E res \in Outcomes :
         refresh' = Moved(refresh, "loadPage", IF res = "ok" THEN "title" ELSE "")
    /\ UNCHANGED <<RestD, applying>>

\* titleComponent.render settles (51-57); then setInterval starts a timer,
\* its id is stored in #refreshIntervalId (59-61), and #fetchAndApplyData
\* is called and awaited (62)
TitleRenderSettles ==
    /\ refresh.rendering["title"] > 0
    /\ \E res \in Outcomes :
         IF res = "ok"
         THEN refresh' = [Moved(refresh, "title", "fetch") EXCEPT
                            !.refreshIntervalId = refresh.started + 1,
                            !.timers = @ \cup { refresh.started + 1 },
                            !.started = @ + 1]
         ELSE refresh' = Moved(refresh, "title", "")
    /\ UNCHANGED <<RestD, applying>>

\* the #fetchAndApplyData call a renderingFull call awaits settles (62),
\* and renderingFull returns or throws
AwaitedFetchSettles ==
    /\ refresh.rendering["fetch"] > 0
    /\ \E res \in Outcomes :
         refresh' = [Moved(refresh, "fetch", "") EXCEPT !.rendered = @ \/ res = "ok"]
    /\ UNCHANGED <<RestD, applying>>

\* a timer fires: its callback calls #fetchAndApplyData and does not await
\* it (59-61)
IntervalFires ==
    /\ refresh.timers # {}
    /\ refresh.fetches < MaxFetches
    /\ refresh' = [refresh EXCEPT !.fetches = @ + 1]
    /\ UNCHANGED <<RestD, applying>>

\* a #fetchAndApplyData call that a timer made settles
FetchSettles ==
    /\ refresh.fetches > 0
    /\ refresh' = [refresh EXCEPT !.fetches = @ - 1]
    /\ UNCHANGED <<RestD, applying>>

\* cleanupFull() (24-29), which the navigator calls when it leaves the
\* page, also while a call of onDeviceOrientationChange is suspended
DashboardCleanupFull ==
    /\ refresh.rendered
    /\ ~refresh.cleaned
    /\ refresh' =
         IF refresh.refreshIntervalId # 0
         THEN [refresh EXCEPT !.timers = @ \ { refresh.refreshIntervalId },
                              !.refreshIntervalId = 0,
                              !.cleaned = TRUE]
         ELSE [refresh EXCEPT !.cleaned = TRUE]
    /\ UNCHANGED <<RestD, applying>>

NextRefresh ==
    \/ DashboardRenderingFull
    \/ OnDeviceOrientationChange
    \/ LoadPageSettles
    \/ TitleRenderSettles
    \/ AwaitedFetchSettles
    \/ IntervalFires
    \/ FetchSettles
    \/ DashboardCleanupFull

SpecRefresh == InitRouter /\ [][NextRefresh]_<<vars, vars4>>


\* ================================================ Navigator of part_007
\* what router.findHandlerFactory answers for the path of a request: null,
\* or the pathFixed of the route found
Matches7 == { <<>>, << <<"dashboard">> >>, << <<"enter", Slash, ":roomid">> >> }
Rest7 ==
    <<vars4, varsR, overlapped, suspended, matchCache, varsD, specialRoutes, prevInfo, prevHandler,
      pathUnmatchIgniters, domClearIgniters, handlers, watchers, cleanups,
      pc, req, calls>>

\* navigate(path), or a popstate at path: #transition(false, path)
Navigate7(match) ==
    /\ transition7.pc = "idle"
    /\ transition7' = [NoTransition EXCEPT !.pc = "lookup", !.pathFixed = match,
                                           !.result = "pending"]
    /\ UNCHANGED <<prevInfo7, Rest7>>

\* navigateSpecial(target): #transition(true, target)
NavigateSpecial7(target) ==
    /\ transition7.pc = "idle"
    /\ transition7' = [NoTransition EXCEPT !.pc = "lookup", !.is_special = TRUE,
                                           !.target = target, !.result = "pending"]
    /\ UNCHANGED <<prevInfo7, Rest7>>

\* the running call throws out of its catch block (the call for 'error'),
\* which rejects the calls that await it in their catch blocks, and is
\* caught by the call of the request when that awaits in its try block:
\* its catch block calls #transition(true, 'error')
Rejected7(t) ==
    IF t.caught
    THEN [NoTransition EXCEPT !.pc = "lookup", !.is_special = TRUE,
                              !.target = "error", !.result = "pending"]
    ELSE [NoTransition EXCEPT !.result = "rejected"]
\* the catch block of #transition
Catch7(t) ==
    IF t.is_special /\ t.target = "error"
    THEN Rejected7(t)
    ELSE [t EXCEPT !.pc = "lookup", !.is_special = TRUE, !.target = "error",
                   !.pathFixed = <<>>]
\* the running call returns, and so does every call that awaits it
Returned7 == [NoTransition EXCEPT !.result = "resolved"]

\* #transition from its start to the loop over ignitersOnPathUnmatch, or to
\* the call of #transition(true, 'notfound') when no factory is found
Lookup7 ==
    /\ transition7.pc = "lookup"
    /\ LET t == transition7
           nextHandlerFactory ==
               IF t.is_special THEN t.target \in specialRoutes ELSE t.pathFixed # <<>>
       IN  transition7' =
             IF nextHandlerFactory THEN [t EXCEPT !.pc = "ignitersOnPathUnmatch"]
             ELSE IF t.is_special /\ t.target = "notfound" THEN Catch7(t)
             ELSE [t EXCEPT !.is_special = TRUE, !.target = "notfound",
                            !.pathFixed = <<>>,
                            !.caught = @ \/ ~(t.is_special /\ t.target = "error")]
    /\ UNCHANGED <<prevInfo7, Rest7>>

\* the loop over ignitersOnPathUnmatch (the exception of a callback is
\* logged), then the test that precedes canInpageTransferTo
IgnitersOnPathUnmatch7 ==
    /\ transition7.pc = "ignitersOnPathUnmatch"
    /\ transition7' =
         [transition7 EXCEPT !.pc =
            IF /\ ~transition7.is_special
               /\ prevInfo7.pathFixed # <<>>
               /\ prevInfo7.pathFixed = transition7.pathFixed
               /\ prevInfo7.handler # "none"
            THEN "canInpageTransferTo" ELSE "create"]
    /\ UNCHANGED <<prevInfo7, Rest7>>

CanInpageTransferTo7 ==
    /\ transition7.pc = "canInpageTransferTo"
    /\ \E res \in Answers :
         transition7' = IF res = "throw" THEN Catch7(transition7)
                        ELSE [transition7 EXCEPT !.pc =
                                IF res = "true" THEN "renderingInpage" ELSE "create"]
    /\ UNCHANGED <<prevInfo7, Rest7>>

\* renderingInpage, and the assignments to prevInfo that end the try block
RenderingInpage7 ==
    /\ transition7.pc = "renderingInpage"
    /\ \E res \in Outcomes :
         IF res = "ok"
         THEN /\ transition7' = Returned7
              /\ prevInfo7' = [prevInfo7 EXCEPT !.pathFixed = transition7.pathFixed]
         ELSE /\ transition7' = Catch7(transition7)
              /\ UNCHANGED prevInfo7
    /\ UNCHANGED Rest7

\* create of the factory; what follows is the first capability check that
\* the test of the partial transition makes, or the full transition
Create7 ==
    /\ transition7.pc = "create"
    /\ \E res \in Outcomes :
         transition7' =
            IF res = "throw" THEN Catch7(transition7)
            ELSE [transition7 EXCEPT !.pc =
                    IF transition7.is_special THEN "teardown"
                    ELSE IF prevInfo7.handler = "none" THEN "canPartialReceiveFromPrevPath"
                    ELSE "canPartialTransferToNextPath"]
    /\ UNCHANGED <<prevInfo7, Rest7>>

CanPartialTransferToNextPath7 ==
    /\ transition7.pc = "canPartialTransferToNextPath"
    /\ \E res \in Answers :
         transition7' = IF res = "throw" THEN Catch7(transition7)
                        ELSE [transition7 EXCEPT !.pc =
                                IF res = "true" THEN "canPartialReceiveFromPrevPath"
                                ELSE "teardown"]
    /\ UNCHANGED <<prevInfo7, Rest7>>

CanPartialReceiveFromPrevPath7 ==
    /\ transition7.pc = "canPartialReceiveFromPrevPath"
    /\ \E res \in Answers :
         transition7' = IF res = "throw" THEN Catch7(transition7)
                        ELSE [transition7 EXCEPT !.pc =
                                IF res = "false" THEN "teardown"
                                ELSE IF prevInfo7.handler = "none" THEN "renderingPartial"
                                ELSE "preparePartialTransfer"]
    /\ UNCHANGED <<prevInfo7, Rest7>>

PreparePartialTransfer7 ==
    /\ transition7.pc = "preparePartialTransfer"
    /\ \E res \in Outcomes :
         transition7' = IF res = "throw" THEN Catch7(transition7)
                        ELSE [transition7 EXCEPT !.pc = "renderingPartial"]
    /\ UNCHANGED <<prevInfo7, Rest7>>

\* what the try block does after the partial or the full transition
Shown7(t) ==
    [handler |-> IF t.is_special THEN t.target ELSE "page", pathFixed |-> t.pathFixed]

RenderingPartial7 ==
    /\ transition7.pc = "renderingPartial"
    /\ \E res \in Outcomes :
         IF res = "ok"
         THEN transition7' = Returned7 /\ prevInfo7' = Shown7(transition7)
         ELSE transition7' = Catch7(transition7) /\ UNCHANGED prevInfo7
    /\ UNCHANGED Rest7

\* the two loops of the full transition (the exception of a callback is
\* logged)
Teardown7 ==
    /\ transition7.pc = "teardown"
    /\ transition7' = [transition7 EXCEPT !.pc = "cleanupFull"]
    /\ UNCHANGED <<prevInfo7, Rest7>>

\* await this.prevInfo.handler?.cleanupFull()
CleanupFull7 ==
    /\ transition7.pc = "cleanupFull"
    /\ \E res \in Outcomes :
         /\ prevInfo7.handler = "none" => res = "ok"
         /\ transition7' = IF res = "throw" THEN Catch7(transition7)
                           ELSE [transition7 EXCEPT !.pc = "renderingFull"]
    /\ UNCHANGED <<prevInfo7, Rest7>>

\* getTitle, getHtmlAssetPath, loadHtml and renderingFull of the next
\* controller
RenderingFull7 ==
    /\ transition7.pc = "renderingFull"
    /\ \E res \in Outcomes :
         IF res = "ok"
         THEN transition7' = Returned7 /\ prevInfo7' = Shown7(transition7)
         ELSE transition7' = Catch7(transition7) /\ UNCHANGED prevInfo7
    /\ UNCHANGED Rest7

Next7 ==
    \/ \E match \in Matches7 : Navigate7(match)
    \/ \E target \in SpecialNames : NavigateSpecial7(target)
    \/ Lookup7
    \/ IgnitersOnPathUnmatch7
    \/ CanInpageTransferTo7
    \/ RenderingInpage7
    \/ Create7
    \/ CanPartialTransferToNextPath7
    \/ CanPartialReceiveFromPrevPath7
    \/ PreparePartialTransfer7
    \/ RenderingPartial7
    \/ Teardown7
    \/ CleanupFull7
    \/ RenderingFull7

Spec7 == Init /\ [][Next7]_<<vars, vars4>>

\* every call that #transition awaits settles, and the code that follows it
\* runs
TransitionStep7 == transition7.pc # "idle" /\ Next7
Spec7Live == Spec7 /\ WF_<<vars, vars4>>(TransitionStep7)


\* ============================================ PageNavigator (spalib-bu-4)
Slots == 1..MaxInFlight
\* the paths handed to navigateTo
NavPaths4 == { <<Slash, "enter", Slash, Slash, "lab", Slash>>, <<"dashboard">>, <<"nope">> }
Running(p) == tasks[p].pc \notin {"free", "settled"}
Lists4 == <<pathWatchers, cleanupTasks>>
Flags4 == <<isTransitioning, transitionController, aborted, lastStarted>>

\* RouteRegistry.findHandlerFactory answers null for an empty path, and
\* walks the trie as Router.findHandlerFactory does for any other
RegistryFind(path) ==
    IF path = <<>> THEN NoMatch ELSE findHandlerFactory(routes, path)

\* the test of #processPathWatchers for one watcher
WatcherMatches(pattern, path) ==
    isPatternMatching(SplitSegments(normalizePath(pattern)),
                      SplitSegments(normalizePath(path)))

\* controller identities: the controller that call p creates is named p;
\* the current controller is renamed Earlier when another call takes the
\* place of the settled call that created it
Earlier == MaxInFlight + 1

\* #executeSpecialTransition(name) up to the await of create: an
\* unregistered page other than 'error' is replaced by 'error', an
\* unregistered 'error' throws the critical error, which ends the call
EnterSpecial(rec, name) ==
    IF name \in specialRoutes
    THEN [rec EXCEPT !.special = name, !.pc = "createSpecial"]
    ELSE IF "error" \in specialRoutes
    THEN [rec EXCEPT !.special = "error", !.pc = "createSpecial"]
    ELSE [rec EXCEPT !.stage = "error", !.pc = "critical"]

\* an exception leaves #executeTransition: the catch of navigateTo calls
\* #handleNavigationError, whose own catch ends the call with null; the
\* popstate listener has no catch
Throw4(rec) ==
    IF rec.stage = "main" /\ ~rec.fromHistory
    THEN EnterSpecial([rec EXCEPT !.stage = "error"], "error")
    ELSE [rec EXCEPT !.pc = "critical"]

\* call p has assigned a new array to #pathWatchers (ofWatchers) or to
\* #cleanupTasks (ofTasks): a loop of another call over the old array no
\* longer sees what is pushed
Unalias(p, rec, ofWatchers, ofTasks) ==
    [q \in Slots |->
        IF q = p THEN rec
        ELSE IF \/ ofWatchers /\ tasks[q].pc \in {"watch", "fullWatch"}
                \/ ofTasks /\ tasks[q].pc = "fullTask"
        THEN [tasks[q] EXCEPT !.live = FALSE]
        ELSE tasks[q]]

\* the loop of #processPathWatchers over the watchers `it` up to its next
\* await (called) or its end
RECURSIVE Scan(_, _, _)
Scan(it, active, path) ==
    IF it = <<>> THEN [it |-> <<>>, active |-> active, called |-> FALSE]
    ELSE IF WatcherMatches(Head(it), path)
    THEN Scan(Tail(it), Append(active, Head(it)), path)
    ELSE [it |-> Tail(it), active |-> active, called |-> TRUE]

\* #processPathWatchers up to its next await, or to the assignment of the
\* active watchers that ends it
ProcessPathWatchers(p, rec, it, active) ==
    LET s == Scan(it, active, rec.path)
    IN  IF s.called
        THEN /\ tasks' = [tasks EXCEPT ![p] =
                            [rec EXCEPT !.pc = "watch", !.it = s.it, !.active = s.active]]
             /\ pathWatchers' = pathWatchers
        ELSE /\ tasks' = Unalias(p, [rec EXCEPT !.pc = "strategy", !.it = <<>>,
                                                !.active = <<>>, !.live = FALSE],
                                 TRUE, FALSE)
             /\ pathWatchers' = s.active

\* navigateTo(path) up to its first await
NavigateTo(p, path) ==
    /\ ~Running(p)
    /\ \A q \in 1..(p - 1) : Running(q)
    /\ LET normalizedPath == normalizePath(path)
           routeMatch == RegistryFind(normalizedPath)
           rec == [NoTask EXCEPT !.pc = "new", !.path = normalizedPath,
                                 !.result = "pending"]
       IN  /\ aborted' = aborted \cup
                 (IF isTransitioning /\ transitionController # 0
                  THEN {transitionController} ELSE {})
           /\ isTransitioning' = TRUE
           /\ transitionController' = p
           /\ lastStarted' = p
           /\ IF routeMatch = NoMatch
              THEN /\ tasks' = [tasks EXCEPT ![p] = EnterSpecial(rec, "notfound")]
                   /\ pathWatchers' = pathWatchers
              ELSE ProcessPathWatchers(
                       p, [rec EXCEPT !.fixedPath = routeMatch[1].fixedPath,
                                      !.params = routeMatch[1].params,
                                      !.live = TRUE],
                       pathWatchers, <<>>)
    /\ currentState' =
         IF currentState # <<>> /\ currentState[1].handler = p
         THEN << [currentState[1] EXCEPT !.handler = Earlier] >>
         ELSE currentState
    /\ cleanupTasks' = cleanupTasks
    /\ UNCHANGED vars

\* the watcher callback that #processPathWatchers awaited has settled
WatcherSettles(p) ==
    /\ tasks[p].pc = "watch"
    /\ ProcessPathWatchers(p, tasks[p], tasks[p].it, tasks[p].active)
    /\ UNCHANGED <<currentState, cleanupTasks, Flags4>>
    /\ UNCHANGED vars

\* #selectTransitionStrategy (no preferredType) and the call of the factory
SelectTransitionStrategy(p) ==
    /\ tasks[p].pc = "strategy"
    /\ tasks' = [tasks EXCEPT ![p].pc = "create",
                              ![p].strategy =
                                 IF currentState = <<>> THEN "full"
                                 ELSE IF currentState[1].fixedPath = tasks[p].fixedPath
                                 THEN "inpage"
                                 ELSE "partial"]
    /\ UNCHANGED <<currentState, Lists4, Flags4>>
    /\ UNCHANGED vars

\* #cleanupCurrentState from what `it` leaves to visit of the watchers
\* (phase "watch") or of the tasks (phase "task"), up to its next await
Teardown(p, rec, phase, it) ==
    LET wEnd == phase = "watch" /\ it = <<>>
        tIt == IF phase = "watch" THEN cleanupTasks ELSE it
    IN  IF phase = "watch" /\ it # <<>>
        THEN /\ tasks' = [tasks EXCEPT ![p] =
                            [rec EXCEPT !.pc = "fullWatch", !.it = Tail(it)]]
             /\ UNCHANGED Lists4
        ELSE /\ pathWatchers' = IF wEnd THEN <<>> ELSE pathWatchers
             /\ IF tIt # <<>>
                THEN /\ tasks' = Unalias(p, [rec EXCEPT
                                                !.pc = "fullTask", !.it = Tail(tIt),
                                                !.live = IF wEnd THEN TRUE ELSE rec.live],
                                         wEnd, FALSE)
                     /\ cleanupTasks' = cleanupTasks
                ELSE /\ tasks' = Unalias(p, [rec EXCEPT !.pc = "cleanup", !.it = <<>>,
                                                         !.live = FALSE],
                                         wEnd, TRUE)
                     /\ cleanupTasks' = <<>>

\* the tests for canInPageTransferTo and canPartialTransferTo on
\* #currentState.handler: a Handler has the in-page and the partial
\* methods, a SpecialHandler has not, and the object a special factory
\* created may have them all the same
CurrentHasPageMethods == currentState # <<>> /\ currentState[1].pageMethods

\* #executeTransitionStrategy from the case of `tier` up to its next await
ExecuteTransitionStrategy(p, rec, tier) ==
    IF tier = "inpage" /\ CurrentHasPageMethods
    THEN /\ tasks' = [tasks EXCEPT ![p] = [rec EXCEPT !.pc = "canInPage"]]
         /\ UNCHANGED Lists4
    ELSE IF tier \in {"inpage", "partial"} /\ CurrentHasPageMethods
    THEN /\ tasks' = [tasks EXCEPT ![p] = [rec EXCEPT !.pc = "canPartial"]]
         /\ UNCHANGED Lists4
    ELSE Teardown(p, [rec EXCEPT !.live = TRUE], "watch", pathWatchers)

\* the tier has returned true: #executeTransition assigns #currentState and
\* calls getTitle
AssignCurrentState(p, rec) ==
    /\ currentState' = << [path |-> rec.path, fixedPath |-> rec.fixedPath,
                           params |-> rec.params, handler |-> rec.handler,
                           special |-> "", pageMethods |-> TRUE] >>
    /\ tasks' = [tasks EXCEPT ![p] = [rec EXCEPT !.pc = "title"]]

\* factory.create has settled
CreateSettles(p) ==
    /\ tasks[p].pc = "create"
    /\ \E res \in Outcomes :
         IF res = "ok"
         THEN ExecuteTransitionStrategy(
                  p, [tasks[p] EXCEPT !.handler = p, !.strategy = ""], tasks[p].strategy)
         ELSE /\ tasks' = [tasks EXCEPT ![p] = Throw4(tasks[p])]
              /\ UNCHANGED Lists4
    /\ UNCHANGED <<currentState, Flags4>>
    /\ UNCHANGED vars

\* #attemptInPageTransition after canInPageTransferTo has settled; an
\* exception is caught and the partial tier is tried
AttemptInPageTransition(p) ==
    /\ tasks[p].pc = "canInPage"
    /\ \E res \in Answers :
         IF res = "true"
         THEN /\ tasks' = [tasks EXCEPT ![p] =
                             [tasks[p] EXCEPT !.pc = "renderInPage"]]
              /\ UNCHANGED Lists4
         ELSE ExecuteTransitionStrategy(p, tasks[p], "partial")
    /\ UNCHANGED <<currentState, Flags4>>
    /\ UNCHANGED vars

\* renderInPage has settled
RenderInPageSettles(p) ==
    /\ tasks[p].pc = "renderInPage"
    /\ \E res \in Outcomes :
         IF res = "ok"
         THEN AssignCurrentState(p, tasks[p]) /\ UNCHANGED Lists4
         ELSE ExecuteTransitionStrategy(p, tasks[p], "partial") /\ UNCHANGED currentState
    /\ UNCHANGED Flags4
    /\ UNCHANGED vars

\* #attemptPartialTransition after both capability checks have settled
AttemptPartialTransition(p) ==
    /\ tasks[p].pc = "canPartial"
    /\ \E canTransfer \in Answers, canReceive \in Answers :
         IF canTransfer = "true" /\ canReceive = "true"
         THEN /\ tasks' = [tasks EXCEPT ![p].pc = "prepare"]
              /\ UNCHANGED Lists4
         ELSE ExecuteTransitionStrategy(p, tasks[p], "full")
    /\ UNCHANGED <<currentState, Flags4>>
    /\ UNCHANGED vars

\* what a preparePartialTransfer may return: pathUnmatchHandlers and
\* domCleanupHandler, within MaxIgniters
Preparations4 ==
    { pr \in [pathUnmatchHandlers : {<<>>} \cup { <<w>> : w \in WatcherPatterns },
              domCleanupHandler : {<<>>, <<"task">>}] :
        /\ Len(pathWatchers) + Len(pr.pathUnmatchHandlers) <= MaxIgniters
        /\ Len(cleanupTasks) + Len(pr.domCleanupHandler) <= MaxIgniters }

\* preparePartialTransfer has settled: the pushes to the two arrays, which a
\* loop over the same array sees, and the call of renderPartial
PreparationSettles(p) ==
    /\ tasks[p].pc = "prepare"
    /\ \E res \in Outcomes :
         IF res = "ok"
         THEN \E preparation \in Preparations4 :
              /\ pathWatchers' = pathWatchers \o preparation.pathUnmatchHandlers
              /\ cleanupTasks' = cleanupTasks \o preparation.domCleanupHandler
              /\ tasks' =
                   [q \in Slots |->
                      IF q = p
                      THEN [tasks[p] EXCEPT !.pc = "renderPartial"]
                      ELSE IF tasks[q].live /\ tasks[q].pc \in {"watch", "fullWatch"}
                      THEN [tasks[q] EXCEPT !.it = @ \o preparation.pathUnmatchHandlers]
                      ELSE IF tasks[q].live /\ tasks[q].pc = "fullTask"
                      THEN [tasks[q] EXCEPT !.it = @ \o preparation.domCleanupHandler]
                      ELSE tasks[q]]
         ELSE ExecuteTransitionStrategy(p, tasks[p], "full")
    /\ UNCHANGED <<currentState, Flags4>>
    /\ UNCHANGED vars

\* renderPartial has settled
RenderPartialSettles(p) ==
    /\ tasks[p].pc = "renderPartial"
    /\ \E res \in Outcomes :
         IF res = "ok"
         THEN AssignCurrentState(p, tasks[p]) /\ UNCHANGED Lists4
         ELSE ExecuteTransitionStrategy(p, tasks[p], "full") /\ UNCHANGED currentState
    /\ UNCHANGED Flags4
    /\ UNCHANGED vars

\* a callback that #cleanupCurrentState awaited has settled (its exception
\* is swallowed)
CleanupCurrentState(p) ==
    /\ tasks[p].pc \in {"fullWatch", "fullTask"}
    /\ Teardown(p, tasks[p], IF tasks[p].pc = "fullWatch" THEN "watch" ELSE "task",
                tasks[p].it)
    /\ UNCHANGED <<currentState, Flags4>>
    /\ UNCHANGED vars

\* #executeFullTransition after #cleanupCurrentState: the call of getHtmlPath
ExecuteFullTransition(p) ==
    /\ tasks[p].pc = "cleanup"
    /\ tasks' = [tasks EXCEPT ![p].pc = "htmlPath"]
    /\ UNCHANGED <<currentState, Lists4, Flags4>>
    /\ UNCHANGED vars

\* getHtmlPath has settled: loadHtmlIntoContainer, or the container is
\* emptied and render is called
HtmlPathSettles(p) ==
    /\ tasks[p].pc = "htmlPath"
    /\ \E res \in {"none", "path", "throw"} :
         tasks' = [tasks EXCEPT ![p] =
                     IF res = "throw" THEN Throw4(tasks[p])
                     ELSE [tasks[p] EXCEPT
                             !.pc = IF res = "path" THEN "load" ELSE "render"]]
    /\ UNCHANGED <<currentState, Lists4, Flags4>>
    /\ UNCHANGED vars

\* loadHtmlIntoContainer has settled
LoadSettles(p) ==
    /\ tasks[p].pc = "load"
    /\ \E res \in Outcomes :
         tasks' = [tasks EXCEPT ![p] =
                     IF res = "throw" THEN Throw4(tasks[p])
                     ELSE [tasks[p] EXCEPT !.pc = "render"]]
    /\ UNCHANGED <<currentState, Lists4, Flags4>>
    /\ UNCHANGED vars

\* render has settled: the assignment of #currentState, by
\* #executeTransition or by #executeSpecialTransition; the controller of a
\* special page is a SpecialHandler, or an object that has the capability
\* methods as well (pageMethods), which shows once it is the current one
RenderSettles(p) ==
    /\ tasks[p].pc = "render"
    /\ \E res \in Outcomes, pageMethods \in BOOLEAN :
         IF res = "throw"
         THEN /\ tasks' = [tasks EXCEPT ![p] = Throw4(tasks[p])]
              /\ UNCHANGED currentState
         ELSE IF tasks[p].special = ""
         THEN AssignCurrentState(p, tasks[p])
         ELSE /\ currentState' =
                   << [path |-> <<"<special>", tasks[p].special>>,
                       fixedPath |-> <<"<special>", tasks[p].special>>,
                       params |-> NoParams, handler |-> tasks[p].handler,
                       special |-> tasks[p].special,
                       pageMethods |-> pageMethods] >>
              /\ tasks' = [tasks EXCEPT ![p].pc = "title"]
    /\ UNCHANGED <<Lists4, Flags4>>
    /\ UNCHANGED vars

\* the create of a special factory has settled
CreateSpecialSettles(p) ==
    /\ tasks[p].pc = "createSpecial"
    /\ \E res \in Outcomes :
         IF res = "ok"
         THEN Teardown(p, [tasks[p] EXCEPT !.handler = p, !.live = TRUE],
                       "watch", pathWatchers)
         ELSE /\ tasks' = [tasks EXCEPT ![p] = Throw4(tasks[p])]
              /\ UNCHANGED Lists4
    /\ UNCHANGED <<currentState, Flags4>>
    /\ UNCHANGED vars

\* the finally of navigateTo; the popstate listener has none
Finally(p, result) ==
    /\ tasks' = [tasks EXCEPT ![p] = [NoTask EXCEPT !.pc = "settled", !.result = result,
                                                    !.handler = tasks[p].handler]]
    /\ IF tasks[p].fromHistory
       THEN UNCHANGED <<isTransitioning, transitionController, aborted>>
       ELSE /\ isTransitioning' = FALSE
            /\ transitionController' = 0
            /\ aborted' = aborted \ {p}
    /\ UNCHANGED <<currentState, Lists4, lastStarted>>
    /\ UNCHANGED vars

\* getTitle has settled (its exception is swallowed): document.title is
\* set and navigateTo returns the current state
UpdateDocumentTitle(p) ==
    /\ tasks[p].pc = "title"
    /\ Finally(p, "state")

\* the critical error is caught by #handleNavigationError: navigateTo
\* returns null
HandleNavigationError(p) ==
    /\ tasks[p].pc = "critical"
    /\ ~tasks[p].fromHistory
    /\ Finally(p, "null")

Next4 ==
    \/ \E p \in Slots, path \in NavPaths4 : NavigateTo(p, path)
    \/ \E p \in Slots : WatcherSettles(p)
    \/ \E p \in Slots : SelectTransitionStrategy(p)
    \/ \E p \in Slots : CreateSettles(p)
    \/ \E p \in Slots : AttemptInPageTransition(p)
    \/ \E p \in Slots : RenderInPageSettles(p)
    \/ \E p \in Slots : AttemptPartialTransition(p)
    \/ \E p \in Slots : PreparationSettles(p)
    \/ \E p \in Slots : RenderPartialSettles(p)
    \/ \E p \in Slots : CleanupCurrentState(p)
    \/ \E p \in Slots : ExecuteFullTransition(p)
    \/ \E p \in Slots : HtmlPathSettles(p)
    \/ \E p \in Slots : LoadSettles(p)
    \/ \E p \in Slots : RenderSettles(p)
    \/ \E p \in Slots : CreateSpecialSettles(p)
    \/ \E p \in Slots : UpdateDocumentTitle(p)
    \/ \E p \in Slots : HandleNavigationError(p)

Spec4 == Init /\ [][Next4]_<<vars, vars4>>

\* ---- back and forward: the popstate listener of #setupHistoryListener
\* calls #executeTransition(window.location.pathname) itself, outside
\* navigateTo: no flag is set, no AbortController made, and nothing
\* catches what #executeTransition throws
Popstate(p, path) ==
    /\ ~Running(p)
    /\ LET normalizedPath == normalizePath(path)
           routeMatch == RegistryFind(normalizedPath)
           rec == [NoTask EXCEPT !.pc = "new", !.path = normalizedPath,
                                 !.result = "pending", !.fromHistory = TRUE]
       IN  IF routeMatch = NoMatch
           THEN /\ tasks' = [tasks EXCEPT ![p] = EnterSpecial(rec, "notfound")]
                /\ pathWatchers' = pathWatchers
           ELSE ProcessPathWatchers(
                    p, [rec EXCEPT !.fixedPath = routeMatch[1].fixedPath,
                                   !.params = routeMatch[1].params,
                                   !.live = TRUE],
                    pathWatchers, <<>>)
    /\ currentState' =
         IF currentState # <<>> /\ currentState[1].handler = p
         THEN << [currentState[1] EXCEPT !.handler = Earlier] >>
         ELSE currentState
    /\ UNCHANGED <<cleanupTasks, Flags4>>
    /\ UNCHANGED vars

\* the promise of the listener rejects with the exception that left
\* #executeTransition: an unhandled rejection
ListenerRejects(p) ==
    /\ tasks[p].pc = "critical"
    /\ tasks[p].fromHistory
    /\ Finally(p, "unhandled")

\* navigateTo calls and popstate events that each come when the call
\* before has settled
\* the paths of these calls and events: those of NavPaths4 and the root
HistoryPaths == NavPaths4 \cup { <<Slash>> }
Settled4 == \A q \in Slots : ~Running(q)
NavigateToNext(path) ==
    /\ Settled4
    /\ NavigateTo(1, path)
PopstateNext(path) ==
    /\ Settled4
    /\ Popstate(1, path)
NextHistory ==
    \/ \E path \in HistoryPaths : NavigateToNext(path)
    \/ \E path \in HistoryPaths : PopstateNext(path)
    \/ \E p \in Slots : WatcherSettles(p)
    \/ \E p \in Slots : SelectTransitionStrategy(p)
    \/ \E p \in Slots : CreateSettles(p)
    \/ \E p \in Slots : AttemptInPageTransition(p)
    \/ \E p \in Slots : RenderInPageSettles(p)
    \/ \E p \in Slots : AttemptPartialTransition(p)
    \/ \E p \in Slots : PreparationSettles(p)
    \/ \E p \in Slots : RenderPartialSettles(p)
    \/ \E p \in Slots : CleanupCurrentState(p)
    \/ \E p \in Slots : ExecuteFullTransition(p)
    \/ \E p \in Slots : HtmlPathSettles(p)
    \/ \E p \in Slots : LoadSettles(p)
    \/ \E p \in Slots : RenderSettles(p)
    \/ \E p \in Slots : CreateSpecialSettles(p)
    \/ \E p \in Slots : UpdateDocumentTitle(p)
    \/ \E p \in Slots : HandleNavigationError(p)
    \/ \E p \in Slots : ListenerRejects(p)

SpecHistory == Init /\ [][NextHistory]_<<vars, vars4>>

\* ======================================================== claims, Navigator
\* ---- reading the call log of the running request
Indices(ops) == {k \in DOMAIN calls : calls[k].op \in ops}
Returned(op, id, res) == \E k \in DOMAIN calls : calls[k] = Call(op, id, res)
CapabilityChecks ==
    {"canInpageTransferTo", "canPartialTransferToNextPath", "canPartialReceiveFromPrevPath"}
TierRenders == {"renderingInpage", "preparePartialTransfer", "renderingPartial"}
Renders == {"renderingInpage", "renderingPartial", "renderingFull"}
WatcherCalls == {"onPathUnmatch.start", "onPathUnmatch.end"}
CleanupCalls == {"domClear.start", "domClear.end"}
\* the calls that a watcher or a deferred cleanup returns from may throw;
\* every other call is one of a controller, of a factory or of the loader
NoLifecycleThrow ==
    /\ req.cause = <<>>
    /\ \A k \in DOMAIN calls :
         calls[k].op \notin (WatcherCalls \cup CleanupCalls) =>
            calls[k].res \notin {"throw", "missing"}
\* the request is a navigate(path) or a popstate whose path has a route
RoutedRequest == req.kind = "path" /\ req.matched
SameRoute ==
    /\ req.startInfo # <<>>
    /\ req.startInfo[1].fixedPath = req.nextInfo.fixedPath
InpageApplies ==
    SameRoute /\ Returned("canInpageTransferTo", req.startHandler, "true")
PartialApplies ==
    /\ req.startInfo # <<>>
    /\ Returned("canPartialTransferToNextPath", req.startHandler, "true")
    /\ Returned("canPartialReceiveFromPrevPath", req.nextHandler, "true")
\* the lists as they were when the running request started
StartList(cs) == [k \in 1..Cardinality({c \in DOMAIN cs : ~cs[c].fresh}) |-> k]
\* the calls of the full transition of the running stage follow the create
FullPhase(k) == \A j \in Indices({"create", "createSpecial"}) : j < k

\* C1: in a request for a routed path in which no lifecycle method throws,
\* exactly one tier renders, and it is the first applicable one of in-page
\* (same fixedPath and canInpageTransferTo true), partial (a Navigation
\* State and both partial checks true), full; the request resolves, and
\* until a tier has rendered the Navigation State and the current
\* controller are the ones the request started with.
C1_TierOrder ==
    (RoutedRequest /\ NoLifecycleThrow) =>
        /\ pc # "idle" => prevInfo = req.startInfo /\ prevHandler = req.startHandler
        /\ pc = "idle" =>
             /\ req.result = "resolved"
             /\ Cardinality(Indices(Renders)) = 1
             /\ IF InpageApplies
                THEN Returned("renderingInpage", req.startHandler, "ok")
                ELSE IF PartialApplies
                THEN Returned("renderingPartial", req.nextHandler, "ok")
                ELSE Returned("renderingFull", req.nextHandler, "ok")
\* a request in which in-page was declined and partial performed
C1_Witness ==
    /\ pc = "idle" /\ RoutedRequest /\ NoLifecycleThrow
    /\ SameRoute
    /\ Returned("canInpageTransferTo", req.startHandler, "false")
    /\ Returned("renderingPartial", req.nextHandler, "ok")

\* C2 (as stated): once canInpageTransferTo has returned true for a path of
\* the current fixedPath and renderingInpage has been called, the
\* controller is unchanged, no factory and no cleanupFull is called, the
\* deferred-cleanup list is unchanged and the Navigation State has the new
\* rawPath and params.
InpageRendered(results) ==
    /\ RoutedRequest /\ InpageApplies
    /\ \E res \in results : Returned("renderingInpage", req.startHandler, res)
InpageEffects ==
    /\ prevHandler = req.startHandler
    /\ Indices({"create", "createSpecial", "cleanupFull"}) = {}
    /\ domClearIgniters = StartList(cleanups)
    /\ handlers[prevHandler].cleaned = 0 \/ Indices({"cleanupFull"}) = {}
    /\ prevInfo = <<req.nextInfo>>
    /\ prevInfo[1].fixedPath = req.startInfo[1].fixedPath
C3_PartialHandoff ==
    /\ \A k \in Indices({"preparePartialTransfer"}) :
         /\ calls[k].id = req.startHandler
         /\ \E i, j \in 1..(k - 1) :
              /\ calls[i] = Call("canPartialTransferToNextPath", req.startHandler, "true")
              /\ calls[j] = Call("canPartialReceiveFromPrevPath", req.nextHandler, "true")
    /\ \A k \in Indices({"renderingPartial"}) :
         /\ calls[k].id = req.nextHandler
         /\ \E j \in 1..(k - 1) :
              calls[j] = Call("preparePartialTransfer", req.startHandler, "ok")
    /\ Returned("renderingPartial", req.nextHandler, "ok") =>
         /\ pc = "idle" /\ req.result = "resolved"
         /\ prevInfo = <<req.nextInfo>>
         /\ prevHandler = req.nextHandler /\ prevHandler # req.startHandler
         /\ Indices({"cleanupFull"}) = {}
         /\ \A h \in DOMAIN handlers : handlers[h].cleaned = 0 \/ h = req.startHandler
         /\ \A w \in DOMAIN watchers : watchers[w].fresh =>
              /\ pathUnmatchIgniters # <<>>
              /\ pathUnmatchIgniters[Len(pathUnmatchIgniters)] = w
         /\ \A c \in DOMAIN cleanups : cleanups[c].fresh =>
              /\ domClearIgniters = Append(StartList(cleanups), c)
\* a partial transition whose preparation returned a watcher and a cleanup
C3_Witness ==
    /\ Returned("renderingPartial", req.nextHandler, "ok")
    /\ \E w \in DOMAIN watchers : watchers[w].fresh
    /\ \E c \in DOMAIN cleanups : cleanups[c].fresh

\* C4: in a full transition the watcher callbacks all complete before a
\* deferred cleanup starts, the deferred cleanups before cleanupFull, and
\* cleanupFull before getTitle, getHtmlAssetPath and renderingFull; the
\* callbacks of a list run in the order of the list.
C4_FullOrder ==
    /\ \A d \in Indices({"domClear.start"}) :
         /\ \A w \in Indices(WatcherCalls) : w < d
         /\ Cardinality({w \in Indices({"onPathUnmatch.start"}) : w < d}) =
            Cardinality({w \in Indices({"onPathUnmatch.end"}) : w < d})
    /\ \A c \in Indices({"cleanupFull"}) :
         \A k \in Indices(WatcherCalls \cup CleanupCalls) : k < c
    /\ \A k \in Indices({"getTitle", "getHtmlAssetPath", "loadHtml", "renderingFull"}) :
         /\ \A c \in Indices(WatcherCalls \cup CleanupCalls \cup {"cleanupFull"}) : c < k
         /\ prevHandler # 0 /\ pc # "idle" => \E c \in Indices({"cleanupFull"}) : c < k
    /\ \A i, j \in Indices({"onPathUnmatch.start"}) :
         (FullPhase(i) /\ i < j) => calls[i].id < calls[j].id
    /\ \A i, j \in Indices({"domClear.start"}) :
         i < j => calls[i].id < calls[j].id

\* C5: no controller receives cleanupFull more than once, and when the
\* teardown of a full transition is over the outgoing controller has
\* received it in that transition.
C5_CleanupOnce ==
    /\ \A h \in DOMAIN handlers : handlers[h].cleaned <= 1
    /\ (pc \in {"getTitle", "getHtmlAssetPath", "loadHtml", "renderingFull"}
        /\ prevHandler # 0) =>
          \E k \in Indices({"cleanupFull"}) : FullPhase(k) /\ calls[k].id = prevHandler

\* C6: when renderingFull of the incoming controller threw and the error
\* page has then been rendered, the recovery has called cleanupFull of the
\* controller whose renderingFull threw.
C6_ThrowingControllerCleaned ==
    (/\ pc = "idle" /\ req.stage = "recovery" /\ req.result = "resolved"
     /\ req.cause # <<>> /\ req.cause[1].op = "renderingFull") =>
        /\ Returned("renderingFull", req.nextHandler, "ok")
        /\ \E k \in Indices({"cleanupFull"}) : calls[k].id = req.cause[1].id

\* C7: after renderingInpage, preparePartialTransfer or renderingPartial
\* threw, the transition calls nothing more: the factory, the partial and
\* the full tier are not tried, the recovery starts.
C7_NoLowerTierAfterRenderThrow ==
    \A k \in Indices(TierRenders) :
        calls[k].res = "throw" => k = Len(calls)

\* C8: after a capability check threw, the transition calls nothing but the
\* other check of the same tier: no other tier is tried, the recovery starts.
C8_CapabilityThrowNotSwallowed ==
    \A k \in Indices(CapabilityChecks) :
        calls[k].res = "throw" =>
            \A j \in (k + 1)..Len(calls) :
                /\ calls[j].op = "canPartialReceiveFromPrevPath"
                /\ j = k + 1

\* C10 (as stated): a watcher is invoked at most once, never in the request
\* whose preparation returned it nor before a later request leaves its
\* pattern or makes a full transition, and the first later request that
\* does either has invoked it and taken it off the list when it is over.
C10_WatcherOnce ==
    \A w \in DOMAIN watchers :
        /\ watchers[w].runs <= 1
        /\ ~watchers[w].early
        /\ ~watchers[w].unasked
        /\ (pc = "idle" /\ watchers[w].due) =>
              /\ watchers[w].runs = 1
              /\ w \notin Range(pathUnmatchIgniters)
\* C10 (amended): a watcher is invoked at most once, and not before a later
\* request resolves to a route and a path that its pattern does not match,
\* or a full transition starts after the preparation returned it, be it in
\* the same request; the request that does either has invoked the watcher
\* and taken it off the list when it is over.
C10_WatcherOnceSinceReturned ==
    \A w \in DOMAIN watchers :
        /\ watchers[w].runs <= 1
        /\ ~watchers[w].unasked
        /\ (pc = "idle" /\ watchers[w].due) =>
              /\ watchers[w].runs = 1
              /\ w \notin Range(pathUnmatchIgniters)
\* a watcher of an earlier request was invoked by a request that left its
\* pattern and made no full transition
C10_Witness ==
    /\ pc = "idle" /\ req.result = "resolved"
    /\ Indices({"cleanupFull", "renderingFull"}) = {}
    /\ \E w \in DOMAIN watchers :
         /\ ~watchers[w].fresh /\ watchers[w].runs = 1
         /\ Returned("onPathUnmatch.end", w, "ok")

\* C11: a deferred cleanup is invoked at most once and only after a full
\* transition has started; every call of a deferred cleanup has started and
\* completed before the cleanupFull of the full transition is called; and
\* once the teardown of a full transition is over, every deferred cleanup
\* that was listed has been invoked once and is off the list.
C11_CleanupAtNextFull ==
    /\ \A c \in DOMAIN cleanups :
         /\ cleanups[c].runs <= 1
         /\ ~cleanups[c].unasked
         /\ (cleanups[c].due /\ pc \notin {"full", "flush"}) =>
               /\ cleanups[c].runs = 1
               /\ c \notin Range(domClearIgniters)
    /\ \A k \in Indices({"cleanupFull"}) :
         /\ \A j \in Indices(CleanupCalls) : j < k
         /\ Cardinality(Indices({"domClear.start"})) = Cardinality(Indices({"domClear.end"}))
         /\ \A c \in DOMAIN cleanups : cleanups[c].due /\ cleanups[c].runs = 1
\* a deferred cleanup of an earlier request, left alone by an in-page
\* transition in between, has completed before cleanupFull
C11_Witness ==
    /\ \E c \in DOMAIN cleanups : ~cleanups[c].fresh /\ cleanups[c].runs = 1
    /\ \E j, k \in DOMAIN calls :
         /\ j < k
         /\ calls[j].op = "domClear.end"
         /\ calls[k].op = "cleanupFull"

\* C12: in the main stage of a request for a routed path, nothing but
\* watcher callbacks is called until every listed watcher has been tested
\* against the new path; from then on each watcher of an earlier request
\* whose pattern does not match has been invoked once, before any other
\* call, and is off the list, each one whose pattern matches is listed and
\* uninvoked as long as no full transition has started, and the listed
\* watchers are in the order they had.
OtherCalls == {k \in DOMAIN calls : calls[k].op \notin WatcherCalls}
C12_WatchersEvaluatedFirst ==
    (RoutedRequest /\ req.stage = "main") =>
        /\ pc = "unmatch" => OtherCalls = {}
        /\ \A i, j \in DOMAIN pathUnmatchIgniters :
             i < j => pathUnmatchIgniters[i] < pathUnmatchIgniters[j]
        /\ pc # "unmatch" =>
             \A w \in DOMAIN watchers :
                ~watchers[w].fresh =>
                   IF IgniterMatches(watchers[w].pattern, req.nextInfo.rawPath)
                   THEN req.wpc = "none" =>
                           /\ watchers[w].runs = 0
                           /\ w \in Range(pathUnmatchIgniters)
                   ELSE /\ watchers[w].runs = 1
                        /\ w \notin Range(pathUnmatchIgniters)
                        /\ \E k \in Indices({"onPathUnmatch.end"}) :
                             /\ calls[k].id = w
                             /\ \A o \in OtherCalls : k < o
\* an in-page transition after which, of three watchers, the second was
\* invoked and dropped and the first and third are kept in their order
C12_Witness ==
    /\ RoutedRequest /\ pc = "idle" /\ req.result = "resolved"
    /\ Returned("renderingInpage", req.startHandler, "ok")
    /\ Len(pathUnmatchIgniters) = 2
    /\ pathUnmatchIgniters[1] = 1 /\ pathUnmatchIgniters[2] = 3
    /\ watchers[2].runs = 1

\* C13: a request for a path that no route matches calls no tier and no
\* route factory: it makes the full transition to the 'notfound' page; when
\* renderingFull of the notfound controller has returned, the request has
\* resolved, the previous controller has received cleanupFull, the two
\* lists are empty, the notfound controller is the current one and the
\* Navigation State is null; it is null as well when the request resolved
\* on the error page.
Unrouted == req.kind = "path" /\ ~req.matched
FullTransitionCalls ==
    WatcherCalls \cup CleanupCalls \cup
    {"createSpecial", "cleanupFull", "getTitle", "getHtmlAssetPath", "loadHtml",
     "renderingFull", "findSpecialHandlerFactory"}
FullTransitionFailures ==
    {"create", "getTitle", "getHtmlAssetPath", "loadHtml", "renderingFull"}
SwallowedCalls == WatcherCalls \cup CleanupCalls \cup {"cleanupFull"}
RecoveryThrew ==
    \E k \in DOMAIN calls :
        calls[k].op \notin SwallowedCalls /\ calls[k].res \in {"throw", "missing"}
C14_ErrorPageRecovers ==
    /\ (req.kind = "path" /\ pc = "idle" /\ req.result = "rejected") =>
          req.stage = "recovery" /\ RecoveryThrew
    /\ (/\ req.kind = "path" /\ req.stage = "recovery"
        /\ req.cause[1].op \in FullTransitionFailures
        /\ req.cause[1].res = "throw"
        /\ "error" \in specialRoutes) =>
          /\ req.special = "error"
          /\ (pc = "idle" /\ ~RecoveryThrew) => req.result = "resolved"
          /\ (pc = "idle" /\ req.result = "resolved") =>
                Returned("renderingFull", req.nextHandler, "ok")
          /\ Returned("renderingFull", req.nextHandler, "ok") =>
                /\ pc = "idle" /\ req.result = "resolved"
                /\ Returned("createSpecial", req.nextHandler, "ok")
                /\ prevHandler = req.nextHandler
                /\ handlers[prevHandler].special
                /\ prevInfo = <<>>
\* the error page rendered after renderingFull of a routed page threw over
\* a current page
C14_Witness ==
    /\ req.kind = "path" /\ req.matched /\ req.stage = "recovery"
    /\ req.cause[1].op = "renderingFull"
    /\ req.startInfo # <<>>
    /\ pc = "idle" /\ req.result = "resolved"

\* C15: in the transition to the 'error' page (the recovery of a failed
\* transition, or navigateSpecial('error') itself), a missing 'error'
\* route or an exception of its factory or of its controller rejects the
\* request at once: the call that failed is the last call of the request,
\* and the 'error' factory is looked up and called at most once.
ErrorTransition ==
    \/ req.stage = "recovery"
    \/ req.kind = "special" /\ req.path = <<"error">>
C15_ErrorNeverRetried ==
    ErrorTransition =>
        /\ req.special = "error"
        /\ Cardinality(Indices({"createSpecial", "findSpecialHandlerFactory"})) <= 1
        /\ "error" \notin specialRoutes =>
              pc \in {"special", "idle"} /\ (pc = "idle" => req.result = "rejected")
        /\ \A k \in DOMAIN calls :
              (calls[k].op \notin SwallowedCalls /\ calls[k].res \in {"throw", "missing"}) =>
                 /\ k = Len(calls)
                 /\ pc = "idle"
                 /\ req.result = "rejected"
\* a recovery that failed because 'error' is unregistered, and one that
\* failed in renderingFull of the error controller
C15_Witness ==
    /\ req.stage = "recovery" /\ pc = "idle" /\ req.result = "rejected"
    /\ \/ Returned("findSpecialHandlerFactory", 0, "missing")
       \/ Returned("renderingFull", req.nextHandler, "throw")

\* C19: a request for the path and the parameters of the current
\* Navigation State, in which no lifecycle method throws, calls neither
\* cleanupFull nor renderingFull.
SamePathAgain ==
    /\ RoutedRequest
    /\ req.startInfo # <<>>
    /\ req.startInfo[1].rawPath = req.nextInfo.rawPath
    /\ req.startInfo[1].params = req.nextInfo.params
C19_SamePathIdempotent ==
    (SamePathAgain /\ NoLifecycleThrow) =>
        Indices({"cleanupFull", "renderingFull"}) = {}


\* C20: an exception thrown by a scope watcher, by a deferred cleanup or by
\* cleanupFull is never the failure of a request.  After such an exception
\* the navigator goes on: once the watchers were tested against a routed
\* path every watcher of an earlier request whose pattern does not match
\* has been invoked, once the teardown of a full transition is over every
\* watcher and every deferred cleanup listed has been invoked and is off
\* its list and cleanupFull of the current controller has been called, and
\* a request that started a full transition and in which nothing else threw
\* ends resolved, with renderingFull of the next controller returned.
SwallowedThrows ==
    {k \in DOMAIN calls : calls[k].op \in SwallowedCalls /\ calls[k].res = "throw"}
TeardownOver == pc \in {"getTitle", "getHtmlAssetPath", "loadHtml", "renderingFull"}
C20_TeardownSurvivesThrow ==
    /\ req.cause # <<>> => req.cause[1].op \notin SwallowedCalls
    /\ SwallowedThrows # {} =>
         /\ (RoutedRequest /\ req.stage = "main" /\ pc # "unmatch") =>
               \A w \in DOMAIN watchers :
                  (/\ ~watchers[w].fresh
                   /\ ~IgniterMatches(watchers[w].pattern, req.nextInfo.rawPath)) =>
                     /\ watchers[w].runs = 1
                     /\ w \notin Range(pathUnmatchIgniters)
         /\ TeardownOver =>
               /\ pathUnmatchIgniters = <<>>
               /\ domClearIgniters = <<>>
               /\ \A w \in DOMAIN watchers : watchers[w].runs = 1
               /\ \A c \in DOMAIN cleanups : cleanups[c].runs = 1
               /\ Cardinality(Indices({"onPathUnmatch.start"})) =
                     Cardinality(Indices({"onPathUnmatch.end"}))
               /\ Cardinality(Indices({"domClear.start"})) =
                     Cardinality(Indices({"domClear.end"}))
               /\ prevHandler # 0 => \E k \in Indices({"cleanupFull"}) :
                                        calls[k].id = prevHandler
         /\ (pc = "idle" /\ req.wpc # "none" /\ req.cause = <<>> /\ ~RecoveryThrew) =>
               /\ req.result = "resolved"
               /\ req.stage = "main"
               /\ Returned("renderingFull", req.nextHandler, "ok")
               /\ prevHandler = req.nextHandler
\* a full transition that completed although the first of two deferred
\* cleanups, a scope watcher and cleanupFull threw: the second deferred
\* cleanup was still invoked
C20_Witness ==
    /\ pc = "idle" /\ req.result = "resolved" /\ req.stage = "main"
    /\ Returned("onPathUnmatch.end", 1, "throw")
    /\ Returned("cleanupFull", req.startHandler, "throw")
    /\ Returned("renderingFull", req.nextHandler, "ok")
    /\ \E j, k \in DOMAIN calls :
         /\ j < k
         /\ calls[j] = Call("domClear.end", 1, "throw")
         /\ calls[k].op = "domClear.end" /\ calls[k].id = 2


\* C21: a controller that has received cleanupFull is not entered again:
\* every call of canInpageTransferTo, renderingInpage,
\* canPartialTransferToNextPath, preparePartialTransfer, renderingPartial or
\* renderingFull in the log is made on a controller all of whose cleanupFull
\* calls come later in the log.
EntryCalls ==
    {"canInpageTransferTo", "renderingInpage", "canPartialTransferToNextPath",
     "preparePartialTransfer", "renderingPartial", "renderingFull"}
C21_CleanedNeverReentered ==
    \A k \in Indices(EntryCalls) :
        handlers[calls[k].id].cleaned =
            Cardinality({j \in Indices({"cleanupFull"}) :
                            calls[j].id = calls[k].id /\ j > k})


\* ---- the Router claims.  The walk the specification describes, told from
\* the registered patterns (not from the route tree): an edge is a literal
\* segment, the parameter edge or the wildcard edge; a pattern is alive
\* while the edges taken are a prefix of its edges.
PatternSegments(k) == SplitSegments(normalizePath(registered[k].path))
EdgeOf(segment) ==
    IF segment = "*" THEN WildEdge
    ELSE IF StartsWithColon(segment) THEN ParamEdge
    ELSE segment
PatternEdges(k) ==
    [d \in 1..Len(PatternSegments(k)) |-> EdgeOf(PatternSegments(k)[d])]
Alive(taken) ==
    {k \in DOMAIN registered :
        /\ Len(PatternEdges(k)) >= Len(taken)
        /\ SubSeq(PatternEdges(k), 1, Len(taken)) = taken}
Offering(taken, edge) ==
    {k \in Alive(taken) :
        /\ Len(PatternEdges(k)) > Len(taken)
        /\ PatternEdges(k)[Len(taken) + 1] = edge}
Bound(taken) == {k \in Alive(taken) : Len(PatternEdges(k)) = Len(taken)}
LastOf(ks) == CHOOSE k \in ks : \A j \in ks : j <= k
Answer(ks, fixedPath, params) ==
    IF ks = {} THEN NoMatch
    ELSE << [handlerFactory |-> registered[LastOf(ks)].handlerFactory,
             fixedPath |-> JoinSegments(fixedPath),
             params |-> params] >>
RECURSIVE GreedyWalk(_, _, _, _)
GreedyWalk(taken, fixedPath, params, segments) ==
    IF segments = <<>> THEN Answer(Bound(taken), fixedPath, params)
    ELSE LET segment == Head(segments) IN
         IF Offering(taken, segment) # {}
         THEN GreedyWalk(Append(taken, segment), Append(fixedPath, segment),
                         params, Tail(segments))
         ELSE IF Offering(taken, ParamEdge) # {}
         THEN LET k == LastOf(Offering(taken, ParamEdge))
                  name == SliceOne(PatternSegments(k)[Len(taken) + 1])
              IN  GreedyWalk(Append(taken, ParamEdge),
                             Append(fixedPath, ColonName(name)),
                             (name :> <<segment>>) @@ params, Tail(segments))
         ELSE IF Offering(taken, WildEdge) # {}
         THEN Answer(Bound(Append(taken, WildEdge)), Append(fixedPath, "*"),
                     params @@ ("*" :> JoinSegments(segments)))
         ELSE NoMatch
\* a registered pattern has a wildcard before its last segment
NonTerminalWildcard(k) ==
    \E d \in 1..(Len(PatternSegments(k)) - 1) : PatternSegments(k)[d] = "*"
TerminalWildcardsOnly == \A k \in DOMAIN registered : ~NonTerminalWildcard(k)

\* C22: on a Router whose patterns have their wildcards last,
\* findHandlerFactory answers what the greedy walk answers: literal before
\* parameter before wildcard at each segment, an edge taken never
\* reconsidered, no match when a later segment has no edge or the node
\* reached has no factory.
C22_GreedyWalk ==
    (found # <<>> /\ TerminalWildcardsOnly) =>
        found[1].match =
            GreedyWalk(<<>>, <<>>, NoParams, SplitSegments(normalizePath(found[1].path)))


\* C23: on a Router whose patterns have their wildcards last, matching the
\* exact path a pattern was registered with answers the factory registered
\* (last) for that pattern, with the pattern as fixedPath and with exactly
\* the names the pattern declares as keys of params ('*' counted as the
\* name a wildcard declares).  A pattern whose wildcard has a parameter
\* sibling is left out: the precedence of the walk gives its own path, whose
\* last segment is '*', to the sibling.
SamePattern(j, k) == normalizePath(registered[j].path) = normalizePath(registered[k].path)
DeclaredNames(k) ==
    {SliceOne(PatternSegments(k)[d]) :
        d \in {e \in DOMAIN PatternSegments(k) : StartsWithColon(PatternSegments(k)[e])}}
    \cup {PatternSegments(k)[d] :
        d \in {e \in DOMAIN PatternSegments(k) : PatternSegments(k)[e] = "*"}}
Shadowed(k) ==
    /\ PatternSegments(k) # <<>>
    /\ PatternSegments(k)[Len(PatternSegments(k))] = "*"
    /\ Offering(SubSeq(PatternEdges(k), 1, Len(PatternEdges(k)) - 1), ParamEdge) # {}
C23_OwnPathMatches ==
    \A k \in DOMAIN registered :
        (/\ found # <<>>
         /\ found[1].path = registered[k].path
         /\ TerminalWildcardsOnly
         /\ ~Shadowed(k)) =>
            /\ found[1].match \notin {NoMatch, TypeError}
            /\ LET match == found[1].match[1]
                   last == LastOf({j \in DOMAIN registered : SamePattern(j, k)})
               IN  /\ match.handlerFactory = registered[last].handlerFactory
                   /\ match.fixedPath = normalizePath(registered[k].path)
                   /\ DOMAIN match.params = DeclaredNames(k)


\* C24: a pattern registered with a wildcard before its last segment is
\* never matched: no findHandlerFactory call answers the factory that was
\* registered with it (registerHandlerFactory rejects no pattern: every
\* call is in `registered`, each with a factory of its own).
C24_NonTerminalWildcardUnmatched ==
    \A k \in DOMAIN registered :
        (/\ NonTerminalWildcard(k)
         /\ found # <<>>
         /\ found[1].match \notin {NoMatch, TypeError}) =>
            found[1].match[1].handlerFactory # registered[k].handlerFactory


\* C25: the place of the segment at which the walk of findHandlerFactory
\* takes the wildcard edge, 0 when it takes none
RECURSIVE WildcardTakenAt(_, _, _)
WildcardTakenAt(current, segments, d) ==
    IF segments = <<>> THEN 0
    ELSE LET static == Append(current, Head(segments)) IN
         IF Head(segments) \in InheritedNames /\ static \notin DOMAIN routes THEN 0
         ELSE IF static \in DOMAIN routes
         THEN WildcardTakenAt(static, Tail(segments), d + 1)
         ELSE IF Append(current, ParamEdge) \in DOMAIN routes
         THEN WildcardTakenAt(Append(current, ParamEdge), Tail(segments), d + 1)
         ELSE IF Append(current, WildEdge) \in DOMAIN routes THEN d
         ELSE 0
FoundSegments == SplitSegments(normalizePath(found[1].path))
\* C25: when the walk takes the wildcard edge at a segment, the call answers
\* a match whose fixedPath has '*' at that place, as its last segment, and
\* whose params has under '*' that segment and all later ones joined by '/';
\* the segments before are in fixedPath as they are or as ':name', and then
\* params has the segment under name.  A match whose fixedPath ends in '*'
\* has a non-empty params['*'].
C25_WildcardCapture ==
    found # <<>> =>
       LET d == WildcardTakenAt(<<>>, FoundSegments, 1) IN
       /\ d > 0 =>
            /\ found[1].match \notin {NoMatch, TypeError}
            /\ LET match == found[1].match[1]
                   fixed == SplitSegments(match.fixedPath)
               IN  /\ Len(fixed) = d
                   /\ fixed[d] = "*"
                   /\ "*" \in DOMAIN match.params
                   /\ match.params["*"] =
                         JoinSegments(SubSeq(FoundSegments, d, Len(FoundSegments)))
                   /\ \A e \in 1..(d - 1) :
                         IF StartsWithColon(fixed[e])
                         THEN /\ SliceOne(fixed[e]) \in DOMAIN match.params
                              /\ match.params[SliceOne(fixed[e])] = << FoundSegments[e] >>
                         ELSE fixed[e] = FoundSegments[e]
       /\ (/\ found[1].match \notin {NoMatch, TypeError}
           /\ found[1].match[1].fixedPath # <<>>
           /\ found[1].match[1].fixedPath[Len(found[1].match[1].fixedPath)] = "*") =>
              /\ d > 0
              /\ found[1].match[1].params["*"] # <<>>
\* 'c/b/a' matched by ':id/*': id is 'c' and '*' is 'b/a'
C25_Witness ==
    /\ found # <<>>
    /\ found[1].path = <<"c", Slash, "b", Slash, "a">>
    /\ found[1].match \notin {NoMatch, TypeError}
    /\ found[1].match[1].fixedPath = <<":id", Slash, "*">>
    /\ found[1].match[1].params = ("id" :> <<"c">>) @@ ("*" :> <<"b", Slash, "a">>)


\* the Router that the same registerHandlerFactory calls build when each is
\* handed its pattern already normalized
RECURSIVE RegisteredNormalized(_)
RegisteredNormalized(n) ==
    IF n = 0 THEN EmptyRoutes
    ELSE registerHandlerFactory(RegisteredNormalized(n - 1),
                                normalizePath(registered[n].path),
                                registered[n].handlerFactory)
\* C26: the route tree is the one that registering the normalized patterns
\* builds, a findHandlerFactory call answers what the call with the
\* normalized path answers on that tree, and normalizing a pattern or a
\* path that is normalized changes nothing.
C26_NormalizedAlike ==
    /\ routes = RegisteredNormalized(Len(registered))
    /\ \A k \in DOMAIN registered :
         normalizePath(normalizePath(registered[k].path)) = normalizePath(registered[k].path)
    /\ found # <<>> =>
         /\ normalizePath(normalizePath(found[1].path)) = normalizePath(found[1].path)
         /\ found[1].match =
               findHandlerFactory(RegisteredNormalized(Len(registered)),
                                  normalizePath(found[1].path))
\* '/a//b/' registered; '//a//c/' looked up after 'a/:id' was registered too
C26_Witness ==
    /\ \E k \in DOMAIN registered :
         registered[k].path = <<Slash, "a", Slash, Slash, "b", Slash>>
    /\ found # <<>>
    /\ found[1].path = <<Slash, Slash, "a", Slash, Slash, "c", Slash>>
    /\ found[1].match \notin {NoMatch, TypeError}
    /\ found[1].match[1].fixedPath = <<"a", Slash, ":id">>
    /\ found[1].match[1].params = ("id" :> <<"c">>)


\* C28: the special-page transitions of the running request: those of the
\* stage that failed (a navigateSpecial, or a navigate to an unrouted path,
\* starts with one) and those in the log of the running stage
SpecialLookups == Indices({"findSpecialHandlerFactory", "createSpecial"})
SpecialsBefore ==
    IF req.stage = "recovery" /\ (req.kind = "special" \/ ~req.matched) THEN 1 ELSE 0
ErrorsBefore ==
    IF req.stage = "recovery" /\ req.kind = "special" /\ req.path = <<"error">>
    THEN 1 ELSE 0
ErrorsNow ==
    IF SpecialLookups # {} /\ req.special = "error" THEN Cardinality(SpecialLookups) ELSE 0
SpecialsBounded ==
    /\ SpecialsBefore + Cardinality(SpecialLookups) <= 2
    /\ ErrorsBefore + ErrorsNow <= 1
    /\ req.stage = "recovery" => req.special = "error"
    /\ (pc = "idle" /\ req.kind # "none") => req.result \in {"resolved", "rejected"}
\* C28: a request attempts at most two special-page transitions and the
\* transition to 'error' at most once, and every request that runs comes
\* to its end, resolved or rejected.
C28_RequestTerminates ==
    /\ []SpecialsBounded
    /\ (pc # "idle") ~> (pc = "idle")
\* a navigate to an unrouted path whose notfound page failed and whose
\* error page failed too: two special-page transitions, then rejected
C28_Witness ==
    /\ pc = "idle" /\ req.kind = "path" /\ ~req.matched
    /\ req.stage = "recovery"
    /\ req.cause[1].op = "createSpecial"
    /\ "error" \in specialRoutes
    /\ Cardinality(SpecialLookups) = 1
    /\ req.result = "rejected"

\* ---- C30: the methods a controller class leaves to HandlerInterface
InheritedCalls == { k \in DOMAIN calls : calls[k].op \in inherited }
RenderEntryPoints == { "renderingPartial", "renderingInpage" }
\* the part of C30 about the capability checks and renderingFull
DefaultsRefuse ==
    \A k \in InheritedCalls :
       /\ calls[k].op \in CapabilityChecks => calls[k].res = "false"
       /\ calls[k].op = "renderingFull" => calls[k].res = "throw"

\* C30: a method that a controller class does not override behaves as the
\* specification says: renderingPartial and renderingInpage raise when they
\* are invoked, so that a request never completes by the partial or the
\* in-page tier through them; the capability checks return false; and
\* renderingFull raises.
C30_DefaultsRaise ==
    /\ DefaultsRefuse
    /\ \A k \in InheritedCalls :
          calls[k].op \in RenderEntryPoints => calls[k].res = "throw"
    /\ (req.result = "resolved" /\ calls # <<>>) =>
          ~(Len(calls) \in InheritedCalls /\ calls[Len(calls)].op \in RenderEntryPoints)

\* ---- C31: overlapping navigate calls
\* the entries a call that is still running holds: what its loops have yet
\* to read, and the watchers its #executePathUnmatchIgniters has kept
Pending(r) ==
    { r.w.arr[k] : k \in { j \in DOMAIN r.w.arr : ~r.w.live /\ j >= r.w.i } }
    \cup Range(r.remaining)
PendingCleanups(r) ==
    { r.d.arr[k] : k \in { j \in DOMAIN r.d.arr : ~r.d.live /\ j >= r.d.i } }
AllOver == \A p \in Requests : overlapped[p].pc \in {"free", "done"}
Overlapped ==
    \E p, q \in Requests :
        p # q /\ overlapped[p].pc \notin {"free", "done"}
              /\ overlapped[q].pc \notin {"free", "done"}
InvokedOnce ==
    /\ \A w \in DOMAIN watchers : watchers[w].runs <= 1
    /\ \A c \in DOMAIN cleanups : cleanups[c].runs <= 1
NoneDropped ==
    /\ \A w \in DOMAIN watchers :
          watchers[w].runs = 0 =>
             \/ w \in Range(pathUnmatchIgniters)
             \/ \E p \in Requests : w \in Pending(overlapped[p])
    /\ \A c \in DOMAIN cleanups :
          cleanups[c].runs = 0 =>
             \/ c \in Range(domClearIgniters)
             \/ \E p \in Requests : c \in PendingCleanups(overlapped[p])

\* C31: also when navigate calls overlap, every scope watcher and every
\* deferred cleanup is invoked at most once in total, and none that was
\* registered leaves the lists and the running calls without having been
\* invoked.
C31_ListsSerialized == InvokedOnce /\ NoneDropped

\* ---- C32: the flat matcher of the watchers and the route tree
OnlyPattern == Len(registered) = 1 /\ ~NonTerminalWildcard(1)
FlatMatch == IgniterMatches(registered[1].path, found[1].path)
TreeMatch == found[1].match \notin {NoMatch, TypeError}

\* C32: for a pattern of literal, ':param' and terminal '*' segments and a
\* path, #isPatternMatching on the normalized and split pattern and path
\* answers true exactly when a Router that holds only that pattern returns
\* a match for the path.
C32_FlatMatcherAgrees ==
    (OnlyPattern /\ found # <<>>) => (FlatMatch <=> TreeMatch)

\* the same for the paths without a segment that names an inherited property
FlatMatcherAgreesOnOwnNames ==
    (OnlyPattern /\ found # <<>>
       /\ Range(found[1].path) \cap InheritedNames = {}) => (FlatMatch <=> TreeMatch)

\* ---- C33: the Navigator of part_007
Running7 == transition7.pc # "idle"

\* C33: every navigate() and navigateSpecial() request ends: a request that
\* runs leads to the Navigator being idle again, whichever special routes
\* are registered and whichever calls throw.
C33_TransitionTerminates == Running7 ~> ~Running7

\* the same when the 'error' route is registered
TerminatesWithErrorRoute == ("error" \in specialRoutes /\ Running7) ~> ~Running7

\* ---- C34: a renderingFull that navigates to a special page
NestedShown == { k \in DOMAIN calls : calls[k].op = "navigateSpecial" /\ calls[k].res = "ok" }

\* C34: when the renderingFull of a request has called navigateSpecial and
\* has returned normally, then after the request the current controller is
\* the special controller that navigateSpecial showed and the Navigation
\* State is null.
C34_NestedSpecialStays ==
    (pc = "idle" /\ req.result = "resolved" /\ suspended = <<>>) =>
       \A k \in NestedShown :
          /\ prevHandler = calls[k].id
          /\ handlers[prevHandler].special
          /\ prevInfo = <<>>

\* ---- C35: the bookkeeping of the Navigator between requests
\* what the route tree answers for the raw path of the Navigation State
StateMatches(info, handler) ==
    \E routeMatch \in Range(findHandlerFactory(routes, info.rawPath)) :
       /\ info.fixedPath = routeMatch.fixedPath
       /\ info.params = routeMatch.params
       /\ handler.by = routeMatch.handlerFactory

\* C35: when no request runs (every navigate / navigateSpecial made so far
\* has settled, resolved or rejected), the Navigation State is null
\* whenever there is no current controller or the current controller is a
\* special controller, and a Navigation State that is not null holds the
\* fixed path and the parameters the route tree matches for its raw path,
\* with a current controller made by the factory registered for that route
C35_BookkeepingConsistent ==
    pc = "idle" =>
       /\ (prevHandler = 0 \/ handlers[prevHandler].special) => prevInfo = <<>>
       /\ prevInfo # <<>> =>
            /\ prevHandler # 0
            /\ StateMatches(prevInfo[1], handlers[prevHandler])

\* a request that ended in an in-page transition to other parameters has
\* settled, the controller of the route staying current
C35_Witness ==
    /\ pc = "idle"
    /\ req.result = "resolved"
    /\ prevInfo # <<>> /\ req.startInfo # <<>>
    /\ prevInfo[1].params # req.startInfo[1].params
    /\ prevHandler = req.startHandler
    /\ \E k \in DOMAIN calls : calls[k] = Call("renderingInpage", prevHandler, "ok")


RoomsOfRow(row) ==
    { k \in DOMAIN applying.rooms : applying.rooms[k].roomid = row.roomid }
\* exactly one row per room returned, and none for any other room
OneRowPerRoom ==
    /\ Len(applying.rows) = Len(applying.rooms)
    /\ \A k \in DOMAIN applying.rooms :
          Cardinality({ r \in DOMAIN applying.rows :
                          applying.rows[r].roomid = applying.rooms[k].roomid }) = 1
\* the rows are in ascending order of sort_priority
RowsAscending ==
    \A r1, r2 \in DOMAIN applying.rows :
       r1 < r2 =>
          \A k1 \in RoomsOfRow(applying.rows[r1]), k2 \in RoomsOfRow(applying.rows[r2]) :
             applying.rooms[k1].sort_priority <= applying.rooms[k2].sort_priority
\* every row shows the status its room has now
RowsCurrent ==
    \A r \in DOMAIN applying.rows :
       \A k \in RoomsOfRow(applying.rows[r]) :
          applying.rows[r].status = StatusText(applying.rooms[k].crowd)
Reconciled ==
    /\ applying.pc # "threw"
    /\ applying.returned => OneRowPerRoom /\ RowsAscending /\ RowsCurrent

\* C37: whatever rows the table body holds and whatever rooms the API
\* answers, the merge loop of #fetchAndApplyData ends, without throwing,
\* and when the call has returned the table body holds exactly one row
\* for each room answered and no other row, in ascending order of
\* sort_priority, each row showing the status its room has now
C37_TableReconciled ==
    /\ []Reconciled
    /\ (applying.pc = "merging") ~> (applying.pc = "idle" /\ applying.returned)

\* the loop of a call has passed every old row and every room: it has
\* removed the row of a room no longer answered, rewritten a row whose
\* room changed its status and inserted the row of a new room, and rooms
\* of two priorities are shown
C37_Witness ==
    /\ applying.pc = "merging"
    /\ applying.oldElementsIndex = Len(applying.oldElements)
    /\ applying.newElementsIndex = Len(applying.newElements)
    /\ \E o \in DOMAIN applying.oldElements :
          \A r \in DOMAIN applying.rows :
             applying.rows[r].roomid # applying.oldElements[o].roomid
    /\ \E o \in DOMAIN applying.oldElements, r \in DOMAIN applying.rows :
          /\ applying.rows[r].roomid = applying.oldElements[o].roomid
          /\ applying.rows[r].status # applying.oldElements[o].status
    /\ \E r \in DOMAIN applying.rows :
          \A o \in DOMAIN applying.oldElements :
             applying.rows[r].roomid # applying.oldElements[o].roomid
    /\ \E k1, k2 \in DOMAIN applying.rooms :
          applying.rooms[k1].sort_priority # applying.rooms[k2].sort_priority


\* ---- C38: the refresh timers of a DashboardHandler
\* C38: a DashboardHandler has at most one refresh timer active at any
\* time, and none once its cleanupFull has run, whatever renderingFull and
\* onDeviceOrientationChange calls were made before
C38_OneTimerWhileShown ==
    /\ Cardinality(refresh.timers) <= 1
    /\ refresh.cleaned => refresh.timers = {}

\* as long as setInterval was called once, its timer is the only one, and
\* cleanupFull clears it
OneTimerAfterOneRendering ==
    refresh.started <= 1 => C38_OneTimerWhileShown
ClearedAfterOneRendering ==
    /\ refresh.cleaned
    /\ refresh.started = 1
    /\ refresh.timers = {}


\* =================================================== claims, PageNavigator
\* call p takes a step: it resumes after an await
Resumes(p) ==
    \/ tasks'[p].pc # tasks[p].pc
    \/ Len(tasks'[p].it) < Len(tasks[p].it)
\* the awaits that follow a call that changes the page: renderInPage,
\* renderPartial, a watcher callback or a cleanup task of the teardown,
\* loadHtmlIntoContainer, render
PageCalls == {"renderInPage", "renderPartial", "fullWatch", "fullTask", "load", "render"}
Unsettled == {p \in Slots : Running(p)}

\* C9: a navigateTo call whose AbortController was aborted by a later call
\* makes no call that changes the page and does not assign #currentState
\* when it resumes; at most one call that was not aborted is running; and
\* when no call is running and the latest one returned a state,
\* getCurrentState() has the controller of the latest call.
C9_StaleCallCancelled ==
    [][ /\ \A p \in Slots :
             (p \in aborted /\ Resumes(p)) =>
                 /\ currentState' = currentState
                 /\ tasks'[p].pc \notin PageCalls
        /\ Cardinality(Unsettled' \ aborted') <= 1
        /\ (Unsettled' = {} /\ lastStarted' # 0 /\ tasks'[lastStarted'].result = "state") =>
               /\ currentState' # <<>>
               /\ currentState'[1].handler = tasks'[lastStarted'].handler
      ]_<<vars, vars4>>


\* C16: a navigateTo call whose transition to the 'error' page has failed
\* (the route is unregistered, or its factory or its controller threw)
\* settles as a rejection.
C16_CriticalRethrown ==
    [][ \A p \in Slots :
            (tasks[p].pc = "critical" /\ tasks'[p].pc = "settled") =>
                tasks'[p].result = "rejected"
      ]_<<vars, vars4>>


\* C17: when renderInPage of the current controller has returned for a
\* navigateTo call, the assignment of the current navigation state that
\* completes the call leaves getCurrentState().handler the controller it
\* was.
C17_InPageKeepsController ==
    [][ \A p \in Slots :
            (tasks[p].pc = "renderInPage" /\ tasks'[p].pc = "title") =>
                /\ currentState # <<>> /\ currentState' # <<>>
                /\ currentState'[1].handler = currentState[1].handler
      ]_<<vars, vars4>>


\* C18: no navigateTo call asks the controller of a special page for an
\* in-page or a partial transition: while getCurrentState() is the state
\* of a special page, no call reaches canInPageTransferTo or the two
\* partial checks.
C18_SpecialNeverSource ==
    [][ \A p \in Slots :
            (tasks'[p].pc # tasks[p].pc /\ tasks'[p].pc \in {"canInPage", "canPartial"}) =>
                /\ currentState # <<>>
                /\ currentState[1].special = ""
      ]_<<vars, vars4>>


\* C27: a transition started by a popstate event recovers as one started
\* by navigateTo does: when its factory or a lifecycle method of its
\* controller throws while the 'error' page is registered, the error page
\* is created next.
C27_HistoryRecovers ==
    [][\A p \in Slots :
          (/\ tasks[p].fromHistory
           /\ tasks[p].stage = "main"
           /\ tasks[p].special = ""
           /\ tasks[p].pc \in {"create", "renderInPage", "preparation",
                               "renderPartial", "htmlPath", "load", "render"}
           /\ tasks'[p].pc \in {"critical", "createSpecial"}
           /\ "error" \in specialRoutes) =>
              /\ tasks'[p].pc = "createSpecial"
              /\ tasks'[p].special = "error"]_<<vars, vars4>>

\* C29: a call for the root path finds the factory registered under '',
\* with fixedPath '' and no params, and is not sent to a special page while
\* nothing has thrown.
C29_RootPathMatched ==
    \A p \in Slots :
        (Running(p) /\ tasks[p].path = <<>> /\ tasks[p].stage = "main") =>
            /\ RegistryFind(tasks[p].path) =
                  << [handlerFactory |-> "index", fixedPath |-> <<>>, params |-> NoParams] >>
            /\ tasks[p].special = ""

====
